---- MODULE Spec2Model ----
(***************************************************************************)
(* Model of packit_service/worker/handlers/testing_farm.py:                *)
(*   TestingFarmHandler.run         one reconciliation pass over targets   *)
(*   TestingFarmResultsHandler.run  one Testing Farm completion callback   *)
(* and of the parts of worker/events/event.py (EventData) they use.        *)
(***************************************************************************)
EXTENDS Integers, Sequences, FiniteSets, TLC

\* ------------------------------------------------------------------ bounds
NumTargets == 3          \* how many distinct chroots a pass may be given
NumPipelines == 2        \* how many pipeline ids callbacks may carry
MaxCallbacks == 2        \* how many callbacks one behaviour processes

\* ------------------------------------------------------- values and helpers
ChrootNames == <<"fedora-rawhide-x86_64", "fedora-35-x86_64", "epel-8-x86_64",
                 "centos-stream-9-x86_64", "fedora-34-x86_64",
                 "opensuse-tumbleweed-x86_64">>
Chroot(n) == ChrootNames[n]
Chroots == {Chroot(n) : n \in 1..NumTargets}
ChrootIndex(t) == CHOOSE n \in 1..NumTargets : Chroot(n) = t

PG_COPR_BUILD_STATUS_SUCCESS == "success"
BuildStatuses == {PG_COPR_BUILD_STATUS_SUCCESS, "failure", "pending"}

\* Python's None for an Optional[CoprBuildModel] / Optional[int] build id
NoBuild == [id |-> 0, status |-> "None"]
CoprBuild(n, s) == [id |-> n, status |-> s]

EmptyDict == [k \in {} |-> <<>>]
ToSet(s) == {s[k] : k \in 1..Len(s)}
NoDup(s) == \A a, b \in 1..Len(s) : a # b => s[a] # s[b]
ListsOf(S) == UNION {{s \in [1..n -> S] : NoDup(s)} : n \in 0..Cardinality(S)}

\* dict[key] = value on an insertion-ordered dict kept as a list of items
DictSet(d, key, value) ==
    IF \E k \in 1..Len(d) : d[k].key = key
    THEN [k \in 1..Len(d) |->
            IF d[k].key = key THEN [key |-> key, value |-> value] ELSE d[k]]
    ELSE Append(d, [key |-> key, value |-> value])
DictKeys(d) == [k \in 1..Len(d) |-> d[k].key]

VARIABLES
    \* ---- TestingFarmHandler
    copr_builds,            \* the Copr build store: build id -> build or NoBuild
    build_id,               \* self.build_id (0 is None)
    data,                   \* self.data (EventData), the fields the pass uses
    targets,                \* list(testing_farm_helper.tests_targets)
    pc,                     \* position inside run()
    idx,                    \* loop index of the current for loop
    targets_without_build,
    targets_with_builds,
    result_details,
    failed,
    lookups,                \* targets whose build has been looked up, in order
    status_reports,         \* report_status_to_test_for_chroot calls, in order
    build_jobs,             \* signature(copr_build).apply_async() calls
    test_submissions,       \* run_testing_farm calls with their results
    queued_metrics,         \* pushgateway.copr_builds_queued / test_runs_queued
    task_result,            \* the TaskResults returned by run()
    tf_db_trigger,          \* the handler's self._db_trigger once run() read it
    lookup_calls,           \* the build lookups of the partition loop, in order
    \* ---- TestingFarmResultsHandler
    test_runs,              \* TFTTestRunModel store: pipeline id -> run
    handled,                \* number of callbacks processed so far
    callback,               \* the event of the handler that ran last
    outcome,                \* how that run() ended
    report,                 \* the StatusReporter.report call it made
    run_metrics,            \* pushgateway.test_runs_started / finished / time
    prev_status,            \* status of the addressed run before that run()
    effects,                \* the store, metric and report calls of that run(), in order
    \* ---- the trigger store and the lazily resolved fields of an envelope
    triggers,               \* the stored trigger records
    envelope,               \* an EventData
    forge_event,            \* an AbstractForgeIndependentEvent
    resolver_calls,         \* lazy field -> times its resolver has run
    upserts,                \* the get_or_create calls made, in order
    last_read,              \* the property read last and how it ended
    serialized,             \* what EventData.get_dict returned last
    \* ---- a pull-request comment
    comment,                \* the comment body
    comment_pc,             \* what has been done with it
    commands,               \* what get_packit_commands_from_comment returned
    handlers_run,           \* the handlers process_message ran, in order
    processing_results,     \* what process_message returned
    \* ---- the target override of a dispatch
    override_list,          \* event.get("targets_override") of the event dict
    metadata,               \* the EventData built from the event dict
    dispatches,             \* the handlers run over it: chroot and override handed on
    \* ---- concurrent deliveries
    deliveries,             \* delivery -> its envelope and where its db_trigger read is
    \* ---- concurrent callbacks
    in_flight               \* pipeline id -> the callback for it and where its run() is

tfVars == <<copr_builds, build_id, data, targets, pc, idx, targets_without_build,
            targets_with_builds, result_details, failed, lookups, status_reports,
            build_jobs, test_submissions, queued_metrics, task_result,
            tf_db_trigger, lookup_calls>>
resVars == <<test_runs, handled, callback, outcome, report, run_metrics,
             prev_status, effects>>
envVars == <<envelope, forge_event, resolver_calls, upserts, last_read, serialized>>
cmtVars == <<comment, comment_pc, commands, handlers_run, processing_results>>
dspVars == <<override_list, metadata, dispatches>>
vars == <<tfVars, resVars, triggers, envVars, cmtVars, dspVars, deliveries, in_flight>>

None == "None"                       \* Python's None for an optional string

\* ------------------------------------------------------------ EventData
NoTime == [sec |-> 0 - 1, usec |-> 0]                \* task_accepted_time is None
NoTimestamp == 0 - 1                                 \* ... and its serialized form

\* EventData.get_dict: a deep copy of __dict__ with the accepted time as a whole
\* timestamp, the override set as a list and the two cached fields dropped.
\* listed is the order list(targets_override) happens to produce.
get_dict(d, listed) ==
    [event_type |-> d.event_type,
     user_login |-> d.user_login,
     trigger_id |-> d.trigger_id,
     project_url |-> d.project_url,
     tag_name |-> d.tag_name,
     git_ref |-> d.git_ref,
     pr_id |-> d.pr_id,
     commit_sha |-> d.commit_sha,
     identifier |-> d.identifier,
     issue_id |-> d.issue_id,
     task_accepted_time |->
        IF d.task_accepted_time # NoTime THEN d.task_accepted_time.sec
        ELSE NoTimestamp,
     targets_override |-> IF d.targets_override # {} THEN listed ELSE <<>>]

\* a GitProject, and None in its place
NoProject == [namespace |-> None, repo |-> None, service |-> None]
GitProject(namespace, repo, service) ==
    [namespace |-> namespace, repo |-> repo, service |-> service]

\* ServiceConfig.get_project(url): the project of the one repository
ProjectUrl == "https://github.com/packit-service/hello-world"
ServiceConfig_get_project(url) == GitProject("packit-service", "hello-world", "github")

\* a stored trigger record (id 0: not stored yet; pr_id, issue_id 0: None)
Trigger(kind, pr_id, branch_name, tag_name, issue_id, commit_hash, project, url, id) ==
    [kind |-> kind, pr_id |-> pr_id, branch_name |-> branch_name,
     tag_name |-> tag_name, issue_id |-> issue_id, commit_hash |-> commit_hash,
     namespace |-> project.namespace, repo_name |-> project.repo,
     project_url |-> url, id |-> id]
NoTrigger == Trigger(None, 0, None, None, 0, None, NoProject, None, 0)

\* EventData.__init__ (lines 49-65) of the envelope of event_type for the
\* repository at project_url; it carries every key, the table picks one
EventDataOf(event_type, project_url, override) ==
    [event_type |-> event_type,
     user_login |-> "phracek",
     trigger_id |-> 123,
     project_url |-> project_url,
     tag_name |-> "0.1.0",
     git_ref |-> "main",
     pr_id |-> 9,
     commit_sha |-> "12345",
     identifier |-> None,
     issue_id |-> 3,
     task_accepted_time |-> [sec |-> 1, usec |-> 5],
     targets_override |-> override,
     cached_project |-> NoProject,
     cached_db_trigger |-> NoTrigger]

EventDatas(override) ==
    {EventDataOf("PullRequestCommentGithubEvent", ProjectUrl, override)}

\* ---- the lazily resolved fields
LazyFields == {"EventData.project", "EventData.db_trigger", "project",
               "base_project", "package_config"}
NoCalls == [f \in LazyFields |-> 0]
Called(calls, f) == [calls EXCEPT ![f] = @ + 1]

\* `if not self._x`: the guard of every lazy property
not_cached_ever(value, none) == TRUE
not_cached(value, none) == value = none

\* EventData.get_project
get_project(d) ==
    IF d.project_url = None THEN NoProject
    ELSE ServiceConfig_get_project(d.project_url)

\* a resolution threads s = [d, store, calls, upserts] through the reads it makes
\* EventData.project
EventData_project(s) ==
    IF not_cached(s.d.cached_project, NoProject)
    THEN LET p == get_project(s.d)
         IN [s |-> [s EXCEPT !.d.cached_project = p,
                             !.calls = Called(@, "EventData.project")],
             value |-> p]
    ELSE [s |-> s, value |-> s.d.cached_project]

PullRequestEvents ==
    {"PullRequestGithubEvent", "PullRequestPagureEvent", "MergeRequestGitlabEvent",
     "PullRequestCommentGithubEvent", "MergeRequestCommentGitlabEvent",
     "PullRequestCommentPagureEvent", "CheckRerunPullRequestEvent"}
PushEvents ==
    {"PushGitHubEvent", "PushGitlabEvent", "PushPagureEvent", "CheckRerunCommitEvent"}
ReleaseEvents == {"ReleaseEvent", "CheckRerunReleaseEvent"}
IssueEvents == {"IssueCommentEvent", "IssueCommentGitlabEvent"}
OtherEvents == {"TestingFarmResultsEvent", "InstallationEvent"}
EventTypes ==
    PullRequestEvents \cup PushEvents \cup ReleaseEvents \cup IssueEvents \cup OtherEvents

\* the if/elif chain of EventData.db_trigger: the model class it upserts
trigger_kind_rerun_as_pull_request(event_type) ==
    IF event_type \in PullRequestEvents \cup {"CheckRerunCommitEvent"}
    THEN "PullRequest"
    ELSE IF event_type \in PushEvents THEN "Branch"
    ELSE IF event_type \in ReleaseEvents THEN "Release"
    ELSE IF event_type \in IssueEvents THEN "Issue"
    ELSE None
trigger_kind(event_type) ==
    IF event_type \in PullRequestEvents THEN "PullRequest"
    ELSE IF event_type \in PushEvents THEN "Branch"
    ELSE IF event_type \in ReleaseEvents THEN "Release"
    ELSE IF event_type \in IssueEvents THEN "Issue"
    ELSE None

\* the keyword arguments of the chosen get_or_create
get_or_create_args(kind, d, namespace, repo) ==
    Trigger(kind,
            IF kind = "PullRequest" THEN d.pr_id ELSE 0,
            IF kind = "Branch" THEN d.git_ref ELSE None,
            IF kind = "Release" THEN d.tag_name ELSE None,
            IF kind = "Issue" THEN d.issue_id ELSE 0,
            IF kind = "Release" THEN d.commit_sha ELSE None,
            GitProject(namespace, repo, None), d.project_url, 0)

\* <Model>.get_or_create: the record of the natural key (the kind's key and
\* namespace, repository, project URL), stored first if there was none
SameKey(t, args) == [t EXCEPT !.id = 0, !.commit_hash = None] =
                    [args EXCEPT !.commit_hash = None]
get_or_create_always_creates(store, args) ==
    LET t == [args EXCEPT !.id = Cardinality(store) + 1]
    IN [store |-> store \cup {t}, value |-> t]
get_or_create(store, args) ==
    IF \E t \in store : SameKey(t, args)
    THEN [store |-> store, value |-> CHOOSE t \in store : SameKey(t, args)]
    ELSE LET t == [args EXCEPT !.id = Cardinality(store) + 1]
         IN [store |-> store \cup {t}, value |-> t]

\* EventData.db_trigger
EventData_db_trigger(s) ==
    IF ~not_cached(s.d.cached_db_trigger, NoTrigger)
    THEN [s |-> s, value |-> s.d.cached_db_trigger, raised |-> None]
    ELSE
      LET s1 == [s EXCEPT !.calls = Called(@, "EventData.db_trigger")]
          kind == trigger_kind(s.d.event_type)
      IN IF kind = None
         THEN [s |-> s1, value |-> NoTrigger, raised |-> None]
         ELSE
           LET first == EventData_project(s1)            \* self.project.namespace
           IN IF first.value = NoProject
              THEN [s |-> first.s, value |-> NoTrigger, raised |-> "AttributeError"]
              ELSE
                LET second == EventData_project(first.s)  \* self.project.repo
                    args == get_or_create_args(kind, s.d, first.value.namespace,
                                               second.value.repo)
                    got == get_or_create(second.s.store, args)
                IN [s |-> [second.s EXCEPT !.store = got.store,
                                           !.upserts = Append(@, args),
                                           !.d.cached_db_trigger = got.value],
                    value |-> got.value,
                    raised |-> None]

Resolving(d, store) == [d |-> d, store |-> store, calls |-> NoCalls, upserts |-> <<>>]

\* ------------------------------------------------- TestingFarmHandler.run
\* CoprBuildModel.get_by_id
get_by_id(id) == IF id \in DOMAIN copr_builds THEN copr_builds[id] ELSE NoBuild

\* TestingFarmJobHelper.get_latest_copr_build: the newest build of the commit
\* for the target, whatever its status, or None
get_latest_copr_build(target, commit_sha) == copr_builds[ChrootIndex(target)]

get_copr_build_info_url(id) == <<"/results/copr-builds", id>>

TaskResults(success, details) == [success |-> success, details |-> details]
NoResult == TaskResults(FALSE, "msg" :> <<"no result yet">>)

\* what TestingFarmJobHelper.run_testing_farm may answer
RunTestingFarmResults ==
    {TaskResults(TRUE, EmptyDict),
     TaskResults(FALSE, "msg" :> <<"Failed to submit tests.">>)}

TriggeredMsg_all_targets(ts) ==
    [text |-> "Build triggered for targets {} missing a Copr build. ",
     targets |-> targets]
TriggeredMsg(ts) ==
    [text |-> "Build triggered for targets {} missing a Copr build. ", targets |-> ts]
FailedMsg(ts) == [text |-> "Failed testing farm targets: '{}'.", targets |-> ts]

\* dict.update(failed) on result_details
Update(details, items) ==
    [k \in DOMAIN details \cup ToSet(DictKeys(items)) |->
        IF \E n \in 1..Len(items) : items[n].key = k
        THEN (CHOOSE it \in ToSet(items) : it.key = k).value
        ELSE details[k]]

\* CoprBuildModel.get_trigger_object: the trigger the build was started for
get_trigger_object(build) ==
    Trigger("PullRequest", 9, None, None, 0, None,
            ServiceConfig_get_project(ProjectUrl), ProjectUrl, 123)

\* TestingFarmHandler.db_trigger, lines 84-94, read at line 104 with nothing cached
handler_db_trigger(id, d, store) ==
    IF id # 0
    THEN [value |-> get_trigger_object(get_by_id(id)), store |-> store]
    ELSE LET read == EventData_db_trigger(Resolving(d, store))
         IN [value |-> read.value, store |-> read.s.store]

\* lines 119-124: the lookup the partition loop makes for a target
LookupCall(fn, id, target, commit_sha, result) ==
    [fn |-> fn, build_id |-> id, target |-> target, commit_sha |-> commit_sha,
     result |-> result]
lookup_call_per_target(target) ==
    LookupCall("get_latest_copr_build", 0, target, data.commit_sha,
               get_latest_copr_build(target, data.commit_sha))
lookup_call(target) ==
    IF build_id # 0
    THEN LookupCall("CoprBuildModel.get_by_id", build_id, None, None,
                    get_by_id(build_id))
    ELSE LookupCall("get_latest_copr_build", 0, target, data.commit_sha,
                    get_latest_copr_build(target, data.commit_sha))

\* ... and the build it resolves
lookup_build(target) == lookup_call(target).result

\* line 126: if copr_build
has_build_inverted(copr_build) == copr_build = NoBuild
has_build(copr_build) == copr_build # NoBuild

\* line 134: if targets_without_build
missing_any_unguarded(without) == TRUE
missing_any(without) == without # <<>>

\* lines 153-154: the event handed to the copr-build task
build_event_data_all_targets(d, listed, without) ==
    [get_dict(d, listed) EXCEPT !.targets_override = targets]
build_event_data(d, listed, without) ==
    [get_dict(d, listed) EXCEPT !.targets_override = without]

\* line 171: copr_build.status != PG_COPR_BUILD_STATUS_SUCCESS
build_not_successful_inverted(copr_build) ==
    copr_build.status = PG_COPR_BUILD_STATUS_SUCCESS
build_not_successful(copr_build) ==
    copr_build.status # PG_COPR_BUILD_STATUS_SUCCESS

\* lines 170-189: the loop goes on to the next item whatever the result was
next_item_stop_at_failure(i, result, n) == IF result.success THEN i + 1 ELSE n + 1
next_item(i, result, n) == i + 1

\* line 188: if not result["success"]
test_failed_ignored(result) == FALSE
test_failed(result) == ~result.success

\* build_id, when given, is the id of a build the store holds (the handler is
\* then started by that build's end); targets is tests_targets in some order
InitHandler ==
    /\ copr_builds \in [1..NumTargets -> {NoBuild} \cup
                           {CoprBuild(n, s) : n \in 1..NumTargets, s \in BuildStatuses}]
    /\ \A n \in 1..NumTargets : copr_builds[n].id \in {0, n}
    /\ build_id \in {0} \cup {n \in 1..NumTargets : copr_builds[n] # NoBuild}
    /\ targets \in ListsOf(Chroots)
    /\ data \in EventDatas({}) \cup EventDatas(ToSet(targets))
    /\ LET read == handler_db_trigger(build_id, data, {})
       IN tf_db_trigger = read.value /\ triggers = read.store
    /\ lookup_calls = <<>>
    /\ pc = "lookup"
    /\ idx = 1
    /\ targets_without_build = <<>>
    /\ targets_with_builds = <<>>
    /\ result_details = EmptyDict
    /\ failed = <<>>
    /\ lookups = <<>>
    /\ status_reports = <<>>
    /\ build_jobs = <<>>
    /\ test_submissions = <<>>
    /\ queued_metrics = [copr_builds_queued |-> 0, test_runs_queued |-> 0]
    /\ task_result = NoResult

\* the partition loop, had it notified each missing target while still looking up
Lookup_notifying ==
    /\ pc = "lookup"
    /\ idx <= Len(targets)
    /\ LET target == targets[idx]
           copr_build == lookup_build(target)
       IN /\ lookups' = Append(lookups, target)
          /\ lookup_calls' = Append(lookup_calls, lookup_call(target))
          /\ IF has_build(copr_build)
             THEN /\ targets_with_builds' = DictSet(targets_with_builds, target, copr_build)
                  /\ UNCHANGED <<targets_without_build, status_reports>>
             ELSE /\ targets_without_build' = Append(targets_without_build, target)
                  /\ status_reports' = Append(status_reports,
                        [state |-> "pending",
                         description |->
                           "Missing Copr build for this target, running a new Copr build.",
                         url |-> <<"">>,
                         chroot |-> target])
                  /\ UNCHANGED targets_with_builds
    /\ idx' = idx + 1
    /\ UNCHANGED <<copr_builds, build_id, data, targets, pc, result_details, failed,
                   build_jobs, test_submissions, queued_metrics, task_result,
                   tf_db_trigger, resVars, triggers, envVars,
                   cmtVars, dspVars, deliveries, in_flight>>

\* lines 118-129: one iteration of the partition loop
Lookup ==
    /\ pc = "lookup"
    /\ idx <= Len(targets)
    /\ LET target == targets[idx]
           copr_build == lookup_build(target)
       IN /\ lookups' = Append(lookups, target)
          /\ lookup_calls' = Append(lookup_calls, lookup_call(target))
          /\ IF has_build(copr_build)
             THEN /\ targets_with_builds' = DictSet(targets_with_builds, target, copr_build)
                  /\ UNCHANGED targets_without_build
             ELSE /\ targets_without_build' = Append(targets_without_build, target)
                  /\ UNCHANGED targets_with_builds
    /\ idx' = idx + 1
    /\ UNCHANGED <<copr_builds, build_id, data, targets, pc, result_details, failed,
                   status_reports, build_jobs, test_submissions, queued_metrics,
                   task_result,
                   tf_db_trigger, resVars, triggers, envVars,
                   cmtVars, dspVars, deliveries, in_flight>>

\* lines 131-134: the partition is complete; is any build missing?
Partitioned ==
    /\ pc = "lookup"
    /\ idx > Len(targets)
    /\ result_details' = EmptyDict
    /\ pc' = IF missing_any(targets_without_build) THEN "missing" ELSE "tests"
    /\ idx' = 1
    /\ UNCHANGED <<copr_builds, build_id, data, targets, targets_without_build,
                   targets_with_builds, failed, lookups, status_reports, build_jobs,
                   test_submissions, queued_metrics, task_result,
                   tf_db_trigger, lookup_calls, resVars, triggers, envVars,
                   cmtVars, dspVars, deliveries, in_flight>>

\* lines 141-147: one pending notification of a target missing a build
ReportMissing ==
    /\ pc = "missing"
    /\ idx <= Len(targets_without_build)
    /\ status_reports' = Append(status_reports,
          [state |-> "pending",
           description |-> "Missing Copr build for this target, running a new Copr build.",
           url |-> <<"">>,
           chroot |-> targets_without_build[idx]])
    /\ idx' = idx + 1
    /\ UNCHANGED <<copr_builds, build_id, data, targets, pc, targets_without_build,
                   targets_with_builds, result_details, failed, lookups, build_jobs,
                   test_submissions, queued_metrics, task_result,
                   tf_db_trigger, lookup_calls, resVars, triggers, envVars,
                   cmtVars, dspVars, deliveries, in_flight>>

\* lines 149-167: count the queued builds and enqueue one copr-build task
TriggerBuild ==
    /\ pc = "missing"
    /\ idx > Len(targets_without_build)
    /\ queued_metrics' = [queued_metrics EXCEPT !.copr_builds_queued =
                              @ + Len(targets_without_build)]
    /\ \E listed \in ListsOf(data.targets_override) :
          /\ ToSet(listed) = data.targets_override
          /\ LET event_data == build_event_data(data, listed, targets_without_build)
             IN build_jobs' = Append(build_jobs,
                   [task |-> "task.run_copr_build_handler", event |-> event_data])
    /\ result_details' = ("msg" :> <<TriggeredMsg(targets_without_build)>>)
    /\ pc' = "tests"
    /\ idx' = 1
    /\ UNCHANGED <<copr_builds, build_id, data, targets, targets_without_build,
                   targets_with_builds, failed, lookups, status_reports,
                   test_submissions, task_result,
                   tf_db_trigger, lookup_calls, resVars, triggers, envVars,
                   cmtVars, dspVars, deliveries, in_flight>>

\* lines 170-189: one iteration over targets_with_builds.items()
RunTests ==
    /\ pc = "tests"
    /\ idx <= Len(targets_with_builds)
    /\ LET target == targets_with_builds[idx].key
           copr_build == targets_with_builds[idx].value
       IN IF build_not_successful(copr_build)
          THEN /\ status_reports' = Append(status_reports,
                     [state |-> "failure",
                      description |->
                        "The latest build was not successful, not running tests for it.",
                      url |-> get_copr_build_info_url(copr_build.id),
                      chroot |-> target])
               /\ idx' = idx + 1
               /\ UNCHANGED <<test_submissions, queued_metrics, failed>>
          ELSE \E result \in RunTestingFarmResults :
               /\ idx' = next_item(idx, result, Len(targets_with_builds))
               /\ queued_metrics' = [queued_metrics EXCEPT !.test_runs_queued = @ + 1]
               /\ test_submissions' = Append(test_submissions,
                     [build |-> copr_build, chroot |-> target, result |-> result])
               /\ failed' = IF test_failed(result)
                            THEN DictSet(failed, target, result.details)
                            ELSE failed
               /\ UNCHANGED status_reports
    /\ UNCHANGED <<copr_builds, build_id, data, targets, pc, targets_without_build,
                   targets_with_builds, result_details, lookups, build_jobs,
                   task_result,
                   tf_db_trigger, lookup_calls, resVars, triggers, envVars,
                   cmtVars, dspVars, deliveries, in_flight>>

\* lines 191-200: aggregate and return
\* the return of line 191, had it waited until nothing submitted is outstanding
loop_exhausted_and_jobs_complete(i, with_builds) ==
    i > Len(with_builds) /\ with_builds = <<>>
\* lines 170-191: the for loop is over when its items are used up, and the
\* return follows at once
loop_exhausted(i, with_builds) == i > Len(with_builds)
Return ==
    /\ pc = "tests"
    /\ loop_exhausted(idx, targets_with_builds)
    /\ IF failed = <<>>
       THEN /\ task_result' = TaskResults(TRUE, result_details)
            /\ UNCHANGED result_details
       ELSE LET old == IF "msg" \in DOMAIN result_details
                       THEN result_details["msg"] ELSE <<>>
                withMsg == [k \in DOMAIN result_details \cup {"msg"} |->
                              IF k = "msg" THEN old \o <<FailedMsg(DictKeys(failed))>>
                              ELSE result_details[k]]
            IN /\ result_details' = Update(withMsg, failed)
               /\ task_result' = TaskResults(FALSE, result_details')
    /\ pc' = "done"
    /\ UNCHANGED <<copr_builds, build_id, data, targets, idx, targets_without_build,
                   targets_with_builds, failed, lookups, status_reports, build_jobs,
                   test_submissions, queued_metrics,
                   tf_db_trigger, lookup_calls, resVars, triggers, envVars,
                   cmtVars, dspVars, deliveries, in_flight>>

IdleResults ==
    /\ test_runs = <<>>
    /\ handled = 0
    /\ callback = <<>>
    /\ outcome = <<>>
    /\ report = <<>>
    /\ run_metrics = <<>>
    /\ prev_status = <<>>
    /\ effects = <<>>

IdleEnvelope ==
    /\ envelope = <<>>
    /\ forge_event = <<>>
    /\ resolver_calls = <<>>
    /\ upserts = <<>>
    /\ last_read = <<>>
    /\ serialized = <<>>

IdleDispatch ==
    /\ override_list = <<>>
    /\ metadata = <<>>
    /\ dispatches = <<>>

IdleRace == deliveries = <<>>

IdleCallbacks == in_flight = <<>>

IdleComment ==
    /\ comment = <<>>
    /\ comment_pc = "idle"
    /\ commands = <<>>
    /\ handlers_run = <<>>
    /\ processing_results = <<>>

Init ==
    /\ InitHandler /\ IdleResults /\ IdleEnvelope /\ IdleComment /\ IdleDispatch
    /\ IdleRace /\ IdleCallbacks
Next == Lookup \/ Partitioned \/ ReportMissing \/ TriggerBuild \/ RunTests \/ Return
Spec == Init /\ [][Next]_vars

\* ------------------------------------------ TestingFarmResultsHandler.run
Pipelines == 1..NumPipelines

\* TestingFarmResult members a callback carries (the enum is not in the files)
TestingFarmResult == {"running", "passed", "failed", "error"}

\* a TFTTestRunModel row, and the None that get_by_pipeline_id answers
NoRun == [id |-> 0, status |-> None, web_url |-> None, submitted_time |-> 0,
          trigger |-> 0]
NewTestRun(p) == [id |-> 100 + p, status |-> "queued", web_url |-> None,
                  submitted_time |-> 0, trigger |-> 9]

\* TFTTestRunModel.get_by_pipeline_id
get_by_pipeline_id(pipeline_id) ==
    IF pipeline_id \in DOMAIN test_runs THEN test_runs[pipeline_id] ELSE NoRun

get_testing_farm_info_url(id) == <<"/results/testing-farm", id>>

\* lines 208-226: what __init__ keeps of the event
\* (line 219-221: result is None when the event has none)
TestingFarmResultsEvents ==
    [pipeline_id : Pipelines,
     result : TestingFarmResult \cup {None},
     log_url : {None, "https://testing-farm.io/logs/1"},
     summary : {None, "", "1 test failed"},
     copr_chroot : {Chroot(1)}]

\* lines 251-262: the commit status and the default summary of a result
map_result_without_error(result) ==
    CASE result = "running" -> [status |-> "running", summary |-> "Tests are running ..."]
      [] result = "passed"  -> [status |-> "success", summary |-> "Tests passed ..."]
      [] OTHER              -> [status |-> "failure", summary |-> "Tests failed ..."]
map_result(result) ==
    CASE result = "running" -> [status |-> "running", summary |-> "Tests are running ..."]
      [] result = "passed"  -> [status |-> "success", summary |-> "Tests passed ..."]
      [] result = "error"   -> [status |-> "error", summary |-> "Error ..."]
      [] OTHER              -> [status |-> "failure", summary |-> "Tests failed ..."]

\* self.summary or default: None and "" are both falsy
summary_or(summary, default) ==
    IF summary # None /\ summary # "" THEN summary ELSE default

\* TFTTestRunModel.set_status
set_status(run, result) == [run EXCEPT !.status = result]

\* lines 248-249: if test_run_model: test_run_model.set_status(self.result)
apply_result_flagging_repeats(found, run, result) ==
    IF found /\ run.status = result THEN set_status(run, "error")
    ELSE IF found THEN set_status(run, result) ELSE run
apply_result_forward_only(found, run, result) ==
    IF found /\ run.status \notin {"passed", "failed", "error"}
    THEN set_status(run, result) ELSE run
apply_result(found, run, result) ==
    IF found THEN set_status(run, result) ELSE run

\* TFTTestRunModel.set_web_url (lines 273-274)
set_web_url(run, url) == [run EXCEPT !.web_url = url]

NoReport == [state |-> None, description |-> None, url |-> <<None>>,
             links_to_external_services |-> EmptyDict]
Returned(mapped, result) ==
    [raised |-> None, line |-> 296, status |-> mapped.status,
     summary |-> mapped.summary, result |-> result]
Raised(mapped, error, line) ==
    [raised |-> error, line |-> line, status |-> mapped.status,
     summary |-> mapped.summary, result |-> NoResult]

\* the run record written back (nothing is written when there is none)
save_to_every_run(runs, pipeline_id, found, run) ==
    [p \in DOMAIN runs |->
        IF runs[p] # NoRun THEN [runs[p] EXCEPT !.status = run.status] ELSE runs[p]]
save(runs, pipeline_id, found, run) ==
    IF found THEN [runs EXCEPT ![pipeline_id] = run] ELSE runs

\* lines 248-294: the calls run() makes on the store, the metrics and the
\* status reporter, in the order it makes them, up to the one that raises
Effect(op, arg) == [op |-> op, arg |-> arg]
handler_effects_report_first(event, found, has_trigger, state) ==
    <<Effect("report", state)>>
    \o (IF found THEN <<Effect("set_status", event.result),
                         Effect("set_web_url", event.log_url)>> ELSE <<>>)
handler_effects(event, found, has_trigger, state) ==
    LET running == event.result = "running"
        status == IF found THEN <<Effect("set_status", event.result)>> ELSE <<>>
        metric == IF running THEN <<Effect("inc", "test_runs_started")>>
                  ELSE <<Effect("inc", "test_runs_finished")>>
        time == IF running THEN <<>>
                ELSE <<Effect("observe", "test_run_finished_time")>>
        url == IF found THEN <<Effect("set_web_url", event.log_url)>> ELSE <<>>
        reported == IF has_trigger THEN <<Effect("report", state)>> ELSE <<>>
    IN IF ~running /\ ~found THEN status \o metric
       ELSE status \o metric \o time \o url \o reported

InitResults ==
    /\ test_runs \in [Pipelines -> {NoRun} \cup {NewTestRun(p) : p \in Pipelines}]
    /\ \A p \in Pipelines : test_runs[p] \in {NoRun, NewTestRun(p)}
    /\ handled = 0
    /\ callback = [pipeline_id |-> 1, result |-> None, log_url |-> None,
                   summary |-> None, copr_chroot |-> Chroot(1)]
    /\ outcome = Returned(map_result(None), NoResult)
    /\ report = NoReport
    /\ run_metrics = [test_runs_started |-> 0, test_runs_finished |-> 0,
                      test_run_finished_time |-> <<>>]
    /\ prev_status = None
    /\ effects = <<>>

\* lines 236-296: one callback handled from beginning to end.  An
\* AttributeError on None leaves the effects made before it in place.
TestingFarmResultsRun ==
    /\ handled < MaxCallbacks
    /\ \E event \in TestingFarmResultsEvents :
        LET now == handled + 1                 \* datetime.now(): a later tick per callback
            test_run_model == get_by_pipeline_id(event.pipeline_id)
            found == test_run_model # NoRun
            \* lines 228-234: the trigger of the run, None when there is no run
            db_trigger == IF found THEN test_run_model.trigger ELSE 0
            m == map_result(event.result)
            mapped == [status |-> m.status,
                       summary |-> summary_or(event.summary, m.summary)]
            with_status == apply_result(found, test_run_model, event.result)
            with_url == IF found THEN set_web_url(with_status, event.log_url)
                        ELSE with_status
            store(run) == save(test_runs, event.pipeline_id, found, run)
        IN /\ callback' = event
           /\ handled' = handled + 1
           /\ prev_status' = test_run_model.status
           /\ effects' = handler_effects(event, found, db_trigger # 0, mapped.status)
           /\ IF event.result = "running"
              THEN run_metrics' = [run_metrics EXCEPT !.test_runs_started = @ + 1]
              ELSE IF found
              THEN run_metrics' = [run_metrics EXCEPT
                      !.test_runs_finished = @ + 1,
                      !.test_run_finished_time =
                          Append(@, now - test_run_model.submitted_time)]
              ELSE run_metrics' = [run_metrics EXCEPT !.test_runs_finished = @ + 1]
           /\ IF event.result # "running" /\ ~found
              THEN \* line 269: None has no submitted_time
                   /\ test_runs' = store(with_status)
                   /\ outcome' = Raised(mapped, "AttributeError", 269)
                   /\ report' = NoReport
              ELSE IF db_trigger = 0
              THEN \* line 277: None has no job_trigger_model_type
                   /\ test_runs' = store(with_url)
                   /\ outcome' = Raised(mapped, "AttributeError", 277)
                   /\ report' = NoReport
              ELSE /\ test_runs' = store(with_url)
                   /\ report' =
                        [state |-> mapped.status,
                         description |-> mapped.summary,
                         url |-> IF found
                                 THEN get_testing_farm_info_url(test_run_model.id)
                                 ELSE <<event.log_url>>,
                         links_to_external_services |->
                             ("Testing Farm" :> event.log_url)]
                   /\ outcome' = Returned(mapped, TaskResults(TRUE, EmptyDict))
    /\ UNCHANGED <<tfVars, triggers, envVars, cmtVars, dspVars, deliveries, in_flight>>

IdleHandler ==
    /\ copr_builds = <<>>
    /\ build_id = 0
    /\ data = <<>>
    /\ targets = <<>>
    /\ pc = "idle"
    /\ idx = 0
    /\ targets_without_build = <<>>
    /\ targets_with_builds = <<>>
    /\ result_details = EmptyDict
    /\ failed = <<>>
    /\ tf_db_trigger = NoTrigger
    /\ lookup_calls = <<>>
    /\ lookups = <<>>
    /\ status_reports = <<>>
    /\ build_jobs = <<>>
    /\ test_submissions = <<>>
    /\ queued_metrics = [copr_builds_queued |-> 0, test_runs_queued |-> 0]
    /\ task_result = NoResult

InitCallbacks ==
    /\ InitResults /\ IdleHandler /\ IdleEnvelope /\ IdleComment /\ triggers = {}
    /\ IdleDispatch /\ IdleRace /\ IdleCallbacks
NextCallbacks == TestingFarmResultsRun
SpecResults == InitCallbacks /\ [][NextCallbacks]_vars

\* ====================================================================
\* Properties of one pass of TestingFarmHandler.run (specification Spec)
\* ====================================================================
Targets == ToSet(targets)
Done == pc = "done"
Submitted(t) == {n \in 1..Len(test_submissions) : test_submissions[n].chroot = t}
SubmittedOnce(t) == Cardinality(Submitted(t)) = 1
AllSucceededBuilds ==
    \A t \in Targets : lookup_build(t).status = PG_COPR_BUILD_STATUS_SUCCESS
NoBuilds == \A t \in Targets : lookup_build(t) = NoBuild

\* C1: when the lookup of every target returns a succeeded build, a finished
\* pass has enqueued no copr-build job and has called run_testing_farm exactly
\* once for each target, |targets| submissions in total.
C1_AllBuilt ==
    (Done /\ AllSucceededBuilds) =>
        /\ build_jobs = <<>>
        /\ Len(test_submissions) = Len(targets)
        /\ \A t \in Targets : SubmittedOnce(t)
C1_Witness ==
    /\ Done /\ AllSucceededBuilds /\ Len(targets) >= 2 /\ build_id = 0
    /\ Len(test_submissions) = Len(targets)

OneBuildJobForAll ==
    /\ Len(build_jobs) = 1
    /\ ToSet(build_jobs[1].event.targets_override) = Targets
    /\ Len(build_jobs[1].event.targets_override) = Len(targets)
    /\ test_submissions = <<>>

\* C2 as stated: for every target set none of whose targets has a build, a
\* finished pass has enqueued exactly one copr-build job for all the targets
\* and has submitted no test run.
C2_Original == (Done /\ NoBuilds) => OneBuildJobForAll

\* C2 amended: for every non-empty target set none of whose targets has a
\* build, a finished pass has enqueued exactly one copr-build job whose
\* targets_override is the full input target set, and no test run.
C2_NoneBuilt == (Done /\ NoBuilds /\ targets # <<>>) => OneBuildJobForAll
C2_Witness ==
    /\ Done /\ NoBuilds /\ Len(targets) >= 2
    /\ Len(build_jobs) = 1 /\ test_submissions = <<>>

WithBuild == ToSet(DictKeys(targets_with_builds))
WithoutBuild == ToSet(targets_without_build)
Mixed == (\E t \in Targets : lookup_build(t) # NoBuild)
         /\ (\E t \in Targets : lookup_build(t) = NoBuild)

\* C3: for a mixed target set, once the partition loop is over the with-build
\* and without-build targets are disjoint and together are the input targets;
\* a finished pass has enqueued exactly one copr-build job whose
\* targets_override is the without-build list, and has submitted exactly one
\* test run for each with-build target whose build succeeded and none for any
\* other target.
C3_Mixed ==
    Mixed =>
      /\ (pc # "lookup") =>
            /\ WithBuild \cap WithoutBuild = {}
            /\ WithBuild \cup WithoutBuild = Targets
            /\ WithoutBuild = {t \in Targets : lookup_build(t) = NoBuild}
      /\ Done =>
            /\ Len(build_jobs) = 1
            /\ build_jobs[1].event.targets_override = targets_without_build
            /\ \A t \in Chroots :
                  IF t \in WithBuild
                     /\ lookup_build(t).status = PG_COPR_BUILD_STATUS_SUCCESS
                  THEN SubmittedOnce(t)
                  ELSE Submitted(t) = {}
C3_Witness ==
    /\ Done /\ Mixed
    /\ \E t \in WithBuild : lookup_build(t).status # PG_COPR_BUILD_STATUS_SUCCESS
    /\ \E t \in WithBuild : SubmittedOnce(t)
    /\ Len(targets_without_build) >= 1

FailedSubmissions ==
    {n \in 1..Len(test_submissions) : ~test_submissions[n].result.success}

\* C7: a finished pass returns success=True exactly when no run_testing_farm
\* call of the pass answered with a non-success result (skipped targets and
\* targets sent to a new build do not count); when it returns success=False
\* the details hold, besides msg, exactly one entry per failed target, keyed
\* by the target's name and holding that call's details.
C7_SuccessIffNoFailure ==
    Done =>
      /\ task_result.success <=> (FailedSubmissions = {})
      /\ ~task_result.success =>
            /\ DOMAIN task_result.details \ {"msg"} =
                  {test_submissions[n].chroot : n \in FailedSubmissions}
            /\ \A n \in FailedSubmissions :
                  task_result.details[test_submissions[n].chroot] =
                     test_submissions[n].result.details
C7_Witness ==
    /\ Done /\ ~task_result.success
    /\ build_jobs # <<>>
    /\ \E n \in 1..Len(status_reports) : status_reports[n].state = "failure"
    /\ FailedSubmissions # {}

\* C8: whenever a pass has emitted a status notification, enqueued a build job
\* or submitted a test run, the build of every target has already been looked
\* up: no lookup of the pass comes after an effect of the pass.
C8_LookupsFirst ==
    (status_reports # <<>> \/ build_jobs # <<>> \/ test_submissions # <<>>)
        => lookups = targets
C8_Witness ==
    /\ lookups = targets /\ Len(targets) >= 2
    /\ status_reports # <<>> /\ build_jobs # <<>> /\ test_submissions # <<>>

BuildRequested(t) ==
    \E n \in 1..Len(build_jobs) : t \in ToSet(build_jobs[n].event.targets_override)

\* C9: in one pass run_testing_farm is called at most once per target, and no
\* target gets both a new-build request and a test submission.
C9_AtMostOnce ==
    \A t \in Chroots :
        /\ Cardinality(Submitted(t)) <= 1
        /\ ~(BuildRequested(t) /\ Submitted(t) # {})
C9_Witness ==
    /\ Done
    /\ \E t \in Chroots : BuildRequested(t)
    /\ \E t \in Chroots : SubmittedOnce(t)

\* C10: a finished pass over an empty target set has enqueued no build job,
\* submitted no test run and emitted no status notification, and returns
\* success=True with empty details.
C10_EmptyTargets ==
    (Done /\ targets = <<>>) =>
        /\ build_jobs = <<>>
        /\ test_submissions = <<>>
        /\ status_reports = <<>>
        /\ task_result = TaskResults(TRUE, EmptyDict)
C10_Witness == Done /\ targets = <<>> /\ task_result.success

\* ====================================================================
\* Properties of TestingFarmResultsHandler.run (specification SpecResults)
\* ====================================================================
Handled == handled > 0
Terminal == {"passed", "failed", "error"}
Rank(status) == CASE status = "queued" -> 0
                  [] status = "running" -> 1
                  [] status \in Terminal -> 2
                  [] OTHER -> 0 - 1

\* C4 as stated: a callback whose pipeline_id has no TestRun record does not
\* make run() raise, whatever its result; run() changes no run record and
\* returns a successful outcome with empty details.
C4_UnknownPipelineReturns ==
    (Handled /\ get_by_pipeline_id(callback.pipeline_id) = NoRun) =>
        /\ outcome.raised = None
        /\ outcome.result = TaskResults(TRUE, EmptyDict)

\* C5 as stated: the status of a TestRun only moves forward along
\* queued -> running -> {passed, failed, error}, whatever callbacks arrive in
\* whatever order: under callbacks that carry a result, a terminal status
\* never changes again and a running status never goes back to queued.
C5_Original ==
    [][\A p \in Pipelines :
          (test_runs[p] # NoRun /\ callback'.result # None) =>
             /\ test_runs[p].status \in Terminal =>
                   test_runs'[p].status = test_runs[p].status
             /\ test_runs[p].status = "running" =>
                   test_runs'[p].status # "queued"]_vars

\* C5 amended: the status of a TestRun changes only when a callback for its
\* pipeline_id is handled, and then becomes that callback's result whatever
\* the status was; so it moves forward along queued -> running -> {passed,
\* failed, error} when the callbacks arrive in that order, while a callback
\* that arrives late or repeats with another result overwrites a later or
\* terminal status.
C5_StatusFollowsCallbacks ==
    [][\A p \in Pipelines :
          test_runs[p] # NoRun =>
             /\ test_runs'[p].status # test_runs[p].status =>
                   handled' = handled + 1 /\ callback'.pipeline_id = p
             /\ (handled' = handled + 1 /\ callback'.pipeline_id = p) =>
                   /\ test_runs'[p].status = callback'.result
                   /\ Rank(callback'.result) >= Rank(test_runs[p].status) =>
                         Rank(test_runs'[p].status) >= Rank(test_runs[p].status)]_vars
C5_Witness ==
    /\ Handled /\ prev_status = "passed"
    /\ test_runs[callback.pipeline_id].status = "running"

NoSummary(summary) == summary = None \/ summary = ""
Reported(status, default) ==
    /\ outcome.status = status
    /\ outcome.summary = IF NoSummary(callback.summary) THEN default
                         ELSE callback.summary
    /\ outcome.raised = None =>
          report.state = status /\ report.description = outcome.summary

\* C6: every result a callback can carry is mapped: running to (running,
\* "Tests are running ..."), passed to (success, "Tests passed ..."), error to
\* (error, "Error ..."), and anything else, failed and an absent result
\* included, to (failure, "Tests failed ..."); the default summary stands in
\* exactly when the callback has no summary (none or an empty one), otherwise
\* the callback's own summary is reported.
C6_MappingTotal ==
    Handled =>
        CASE callback.result = "running" -> Reported("running", "Tests are running ...")
          [] callback.result = "passed"  -> Reported("success", "Tests passed ...")
          [] callback.result = "error"   -> Reported("error", "Error ...")
          [] OTHER                       -> Reported("failure", "Tests failed ...")
C6_Witness ==
    /\ Handled /\ callback.result = "error" /\ callback.summary = None
    /\ outcome.raised = None
    /\ report.state = "error" /\ report.description = "Error ..."

\* ====================================================================
\* Further properties of one pass of TestingFarmHandler.run (Spec)
\* ====================================================================
FailureReports(t) ==
    {n \in 1..Len(status_reports) :
        status_reports[n].state = "failure" /\ status_reports[n].chroot = t}
NotSucceeded(n) ==
    targets_with_builds[n].value.status # PG_COPR_BUILD_STATUS_SUCCESS

\* C11: a finished pass has emitted exactly one failure notification, linking
\* the build, for every target whose resolved build is not succeeded, has not
\* called run_testing_farm for it, and has gone on to the targets after it:
\* every with-build target whose build succeeded has its test submission.
C11_FailedBuildSkipped ==
    Done =>
        \A n \in 1..Len(targets_with_builds) :
            LET t == targets_with_builds[n].key
                b == targets_with_builds[n].value
            IN IF b.status # PG_COPR_BUILD_STATUS_SUCCESS
               THEN /\ Cardinality(FailureReports(t)) = 1
                    /\ \A r \in FailureReports(t) :
                          status_reports[r].url = get_copr_build_info_url(b.id)
                    /\ Submitted(t) = {}
               ELSE /\ FailureReports(t) = {}
                    /\ SubmittedOnce(t)
C11_Witness ==
    /\ Done
    /\ \E n, k \in 1..Len(targets_with_builds) :
          /\ n < k
          /\ NotSucceeded(n) /\ ~NotSucceeded(k)
          /\ Cardinality(FailureReports(targets_with_builds[n].key)) = 1
          /\ SubmittedOnce(targets_with_builds[k].key)

\* C17: when a finished pass found at least one target without a build and no
\* submitted test run failed, it returns success=True and details["msg"] is
\* the build-triggered message naming exactly the targets without a build,
\* the targets of the one build job.
C17_BuildTriggeredMsg ==
    (Done /\ targets_without_build # <<>> /\ FailedSubmissions = {}) =>
        /\ task_result.success
        /\ DOMAIN task_result.details = {"msg"}
        /\ Len(task_result.details["msg"]) = 1
        /\ task_result.details["msg"][1].text =
              "Build triggered for targets {} missing a Copr build. "
        /\ ToSet(task_result.details["msg"][1].targets) =
              {t \in Targets : lookup_build(t) = NoBuild}
        /\ Len(build_jobs) = 1
        /\ task_result.details["msg"][1].targets =
              build_jobs[1].event.targets_override
C17_Witness ==
    /\ Done /\ task_result.success
    /\ Len(targets_with_builds) = 1 /\ Len(test_submissions) = 1
    /\ Len(targets_without_build) = 1
    /\ task_result.details["msg"][1].targets = targets_without_build

\* ====================================================================
\* Further properties of TestingFarmResultsHandler.run (SpecResults)
\* ====================================================================
SameCallbackAgain ==
    /\ handled >= 1 /\ handled' = handled + 1
    /\ callback'.pipeline_id = callback.pipeline_id
    /\ callback'.result = callback.result
    /\ callback'.log_url = callback.log_url

\* C13: handling the same callback (same pipeline_id, result and log_url) a
\* second time leaves the run record of a known pipeline, status and log URL,
\* as the first handling left it.
C13_CallbackIdempotent ==
    [][(SameCallbackAgain /\ test_runs[callback.pipeline_id] # NoRun) =>
          test_runs' = test_runs]_vars
C13_Witness ==
    /\ handled = 2
    /\ test_runs[callback.pipeline_id] # NoRun
    /\ prev_status = callback.result /\ callback.result = "passed"
    /\ callback.log_url # None
    /\ test_runs[callback.pipeline_id].status = "passed"
    /\ test_runs[callback.pipeline_id].web_url = callback.log_url

\* C20: after a callback whose pipeline_id has a TestRun, the run's status is
\* the callback's result and its log URL the callback's log_url, whatever the
\* status was before: the callback is applied, never rejected or ignored.
C20_ResultAuthoritative ==
    (Handled /\ test_runs[callback.pipeline_id] # NoRun) =>
        /\ test_runs[callback.pipeline_id].status = callback.result
        /\ test_runs[callback.pipeline_id].web_url = callback.log_url
        /\ outcome.raised = None
C20_Witness ==
    /\ Handled /\ test_runs[callback.pipeline_id] # NoRun
    /\ prev_status = "error" /\ callback.result = "running"
    /\ callback.log_url # None
    /\ test_runs[callback.pipeline_id].status = "running"
    /\ test_runs[callback.pipeline_id].web_url = callback.log_url


\* C12: with a build_id the pass never calls get_latest_copr_build: every lookup
\* of the partition loop is get_by_id of that id, every target resolves to that
\* one build, and the handler's trigger is the build's while the envelope's
\* trigger is never resolved (nothing is upserted); without a build_id each
\* target is looked up by get_latest_copr_build with the envelope's commit_sha,
\* and the handler's trigger is the one the envelope resolves to.
C12_BuildIdBypassesLookup ==
    /\ Len(lookup_calls) = Len(lookups)
    /\ pc # "lookup" => Len(lookup_calls) = Len(targets)
    /\ IF build_id # 0
       THEN /\ \A n \in 1..Len(lookup_calls) :
                 /\ lookup_calls[n].fn = "CoprBuildModel.get_by_id"
                 /\ lookup_calls[n].build_id = build_id
                 /\ lookup_calls[n].result = copr_builds[build_id]
            /\ \A n \in 1..Len(targets_with_builds) :
                 targets_with_builds[n].value = copr_builds[build_id]
            /\ targets_without_build = <<>>
            /\ tf_db_trigger = get_trigger_object(copr_builds[build_id])
            /\ triggers = {}
       ELSE /\ \A n \in 1..Len(lookup_calls) :
                 /\ lookup_calls[n].fn = "get_latest_copr_build"
                 /\ lookup_calls[n].target = targets[n]
                 /\ lookup_calls[n].commit_sha = data.commit_sha
                 /\ lookup_calls[n].result = copr_builds[ChrootIndex(targets[n])]
            /\ triggers = {tf_db_trigger}
            /\ tf_db_trigger.kind = "PullRequest"
            /\ tf_db_trigger.pr_id = data.pr_id
            /\ tf_db_trigger # get_trigger_object(NoBuild)
C12_Witness ==
    /\ Done
    /\ build_id # 0
    /\ Len(targets) >= 2
    /\ \E n \in 1..Len(targets) :
          /\ copr_builds[ChrootIndex(targets[n])] = NoBuild
          /\ targets_with_builds[n].value.id = build_id


\* ------------------------------------------ AbstractForgeIndependentEvent
MaxReads == 3

\* a PackageConfig, and None in its place
NoConfig == [jobs |-> None, upstream_project_url |-> None]
PackageConfig(upstream_project_url) ==
    [jobs |-> "tests", upstream_project_url |-> upstream_project_url]

\* __init__ (lines 293-306) of an event of a subclass: trigger is what the
\* subclass's db_trigger yields, base what its get_base_project() yields and
\* has_config whether the repository holds a package config
ForgeEvent(project_url, trigger, base, has_config) ==
    [project_url |-> project_url, db_trigger |-> trigger, base |-> base,
     has_config |-> has_config, commit_sha |-> "12345", pr_id |-> 9,
     cached_project |-> NoProject, cached_base_project |-> NoProject,
     cached_package_config |-> NoConfig]

StoredTrigger == get_trigger_object(NoBuild)
BaseProjects == {NoProject, GitProject("packit-service", "hello-world", "github"),
                 GitProject("rpms", "hello-world", "pagure")}
ForgeEvents == {ForgeEvent(url, trigger, base, has_config) :
                   url \in {None, ProjectUrl}, trigger \in {NoTrigger, StoredTrigger},
                   base \in BaseProjects, has_config \in BOOLEAN}

\* AbstractForgeIndependentEvent.get_project
forge_get_project(e) ==
    IF e.project_url = None /\ e.db_trigger = NoTrigger THEN NoProject
    ELSE ServiceConfig_get_project(IF e.project_url # None THEN e.project_url
                                   ELSE e.db_trigger.project_url)

\* a read threads s = [e, calls] through the reads it makes in turn
\* AbstractForgeIndependentEvent.project
forge_project(s) ==
    IF not_cached(s.e.cached_project, NoProject)
    THEN LET p == forge_get_project(s.e)
         IN [s |-> [s EXCEPT !.e.cached_project = p, !.calls = Called(@, "project")],
             value |-> p]
    ELSE [s |-> s, value |-> s.e.cached_project]

\* AbstractForgeIndependentEvent.base_project
forge_base_project(s) ==
    IF not_cached(s.e.cached_base_project, NoProject)
    THEN [s |-> [s EXCEPT !.e.cached_base_project = s.e.base,
                          !.calls = Called(@, "base_project")],
          value |-> s.e.base]
    ELSE [s |-> s, value |-> s.e.cached_base_project]

\* PackageConfigGetter.get_package_config_from_repo(fail_when_missing=False)
get_package_config_from_repo(e) ==
    IF e.has_config THEN PackageConfig(None) ELSE NoConfig

\* AbstractForgeIndependentEvent.get_package_config: the debug message reads
\* project and base_project, isinstance reads base_project, a Pagure base
\* project reads project.repo, and the call reads base_project and project
forge_get_package_config(s) ==
    LET logged == forge_base_project(forge_project(s).s)
        checked == forge_base_project(logged.s)
        pagure == checked.value.service = "pagure"
        spec_path == IF pagure THEN forge_project(checked.s)
                     ELSE [s |-> checked.s, value |-> NoProject]
    IN IF pagure /\ spec_path.value = NoProject
       THEN [s |-> spec_path.s, value |-> NoConfig, raised |-> "AttributeError"]
       ELSE LET passed == forge_project(forge_base_project(spec_path.s).s)
                package_config == get_package_config_from_repo(passed.s.e)
            IN [s |-> passed.s,
                value |-> IF package_config # NoConfig
                          THEN [package_config EXCEPT
                                   !.upstream_project_url = passed.s.e.project_url]
                          ELSE package_config,
                raised |-> None]

\* AbstractForgeIndependentEvent.package_config
forge_package_config(s) ==
    IF not_cached(s.e.cached_package_config, NoConfig)
    THEN LET got == forge_get_package_config(
                       [s EXCEPT !.calls = Called(@, "package_config")])
         IN IF got.raised # None THEN got
            ELSE [s |-> [got.s EXCEPT !.e.cached_package_config = got.value],
                  value |-> got.value, raised |-> None]
    ELSE [s |-> s, value |-> s.e.cached_package_config, raised |-> None]


\* ------------------------------------------------- reads of lazy fields
NoRead == [n |-> 0, field |-> None, raised |-> None, project |-> NoProject,
           trigger |-> NoTrigger, config |-> NoConfig]
Read(field, raised, project, trigger, config) ==
    [n |-> last_read.n + 1, field |-> field, raised |-> raised, project |-> project,
     trigger |-> trigger, config |-> config]

\* the records of the repository's pull request, branch, release and issue
Kinds == <<"PullRequest", "Branch", "Release", "Issue">>
Stored ==
    {[get_or_create_args(Kinds[n], EventDataOf(None, ProjectUrl, {}),
                         "packit-service", "hello-world") EXCEPT !.id = n] :
        n \in 1..Len(Kinds)}

\* one object is read at a time: the other one is the plain pull-request one
InitEnvelope ==
    /\ envelope \in {EventDataOf(t, url, {}) :
                        t \in EventTypes, url \in {None, ProjectUrl}}
    /\ forge_event \in ForgeEvents
    /\ \/ envelope = EventDataOf("PullRequestCommentGithubEvent", ProjectUrl, {})
       \/ forge_event = ForgeEvent(ProjectUrl, NoTrigger, NoProject, TRUE)
    /\ triggers \in {{}, Stored}
    /\ resolver_calls = NoCalls
    /\ upserts = <<>>
    /\ last_read = NoRead
    /\ serialized = <<>>

\* a read of EventData.project
ReadEventDataProject ==
    /\ last_read.n < MaxReads
    /\ LET read == EventData_project([d |-> envelope, store |-> triggers,
                                      calls |-> resolver_calls, upserts |-> upserts])
       IN /\ envelope' = read.s.d
          /\ resolver_calls' = read.s.calls
          /\ last_read' = Read("EventData.project", None, read.value, NoTrigger,
                               NoConfig)
    /\ UNCHANGED <<tfVars, resVars, cmtVars, dspVars, deliveries, in_flight, serialized,
                   triggers, forge_event, upserts>>

\* a read of EventData.db_trigger
ReadEventDataDbTrigger ==
    /\ last_read.n < MaxReads
    /\ LET read == EventData_db_trigger([d |-> envelope, store |-> triggers,
                                         calls |-> resolver_calls,
                                         upserts |-> upserts])
       IN /\ envelope' = read.s.d
          /\ triggers' = read.s.store
          /\ resolver_calls' = read.s.calls
          /\ upserts' = read.s.upserts
          /\ last_read' = Read("EventData.db_trigger", read.raised, NoProject,
                               read.value, NoConfig)
    /\ UNCHANGED <<tfVars, resVars, cmtVars, dspVars, deliveries, in_flight, serialized,
                   forge_event>>

\* a read of AbstractForgeIndependentEvent.project
ReadProject ==
    /\ last_read.n < MaxReads
    /\ LET read == forge_project([e |-> forge_event, calls |-> resolver_calls])
       IN /\ forge_event' = read.s.e
          /\ resolver_calls' = read.s.calls
          /\ last_read' = Read("project", None, read.value, NoTrigger, NoConfig)
    /\ UNCHANGED <<tfVars, resVars, cmtVars, dspVars, deliveries, in_flight, serialized,
                   triggers, envelope, upserts>>

\* a read of AbstractForgeIndependentEvent.base_project
ReadBaseProject ==
    /\ last_read.n < MaxReads
    /\ LET read == forge_base_project([e |-> forge_event, calls |-> resolver_calls])
       IN /\ forge_event' = read.s.e
          /\ resolver_calls' = read.s.calls
          /\ last_read' = Read("base_project", None, read.value, NoTrigger, NoConfig)
    /\ UNCHANGED <<tfVars, resVars, cmtVars, dspVars, deliveries, in_flight, serialized,
                   triggers, envelope, upserts>>

\* a read of AbstractForgeIndependentEvent.package_config
ReadPackageConfig ==
    /\ last_read.n < MaxReads
    /\ LET read == forge_package_config([e |-> forge_event, calls |-> resolver_calls])
       IN /\ forge_event' = read.s.e
          /\ resolver_calls' = read.s.calls
          /\ last_read' = Read("package_config", read.raised, NoProject, NoTrigger,
                               read.value)
    /\ UNCHANGED <<tfVars, resVars, cmtVars, dspVars, deliveries, in_flight, serialized,
                   triggers, envelope, upserts>>

\* get_dict, had it popped the lazy attributes from the object's own __dict__
self_after_get_dict_shared(d) ==
    [d EXCEPT !.cached_project = NoProject, !.cached_db_trigger = NoTrigger]
\* lines 169-179: get_dict works on a deep copy of self.__dict__, so the pops
\* of _project and _db_trigger leave the object as it was
self_after_get_dict(d) == d

\* a serialization of the EventData
GetDict ==
    /\ last_read.n < MaxReads
    /\ \E listed \in {l \in ListsOf(envelope.targets_override) :
                         ToSet(l) = envelope.targets_override} :
          serialized' = get_dict(envelope, listed)
    /\ envelope' = self_after_get_dict(envelope)
    /\ last_read' = Read("EventData.get_dict", None, NoProject, NoTrigger, NoConfig)
    /\ UNCHANGED <<tfVars, resVars, cmtVars, dspVars, deliveries, in_flight, triggers,
                   forge_event, resolver_calls, upserts>>

InitReads ==
    /\ InitEnvelope /\ IdleHandler /\ IdleResults /\ IdleComment
    /\ IdleDispatch /\ IdleRace /\ IdleCallbacks
NextReads ==
    \/ ReadEventDataProject
    \/ ReadEventDataDbTrigger
    \/ ReadProject
    \/ ReadBaseProject
    \/ ReadPackageConfig
    \/ GetDict
SpecEnvelope == InitReads /\ [][NextReads]_vars


\* the last read was one of EventData.db_trigger
ReadDbTrigger == last_read.field = "EventData.db_trigger"
\* the keys a get_or_create call was given
Keys(args) == <<args.pr_id, args.branch_name, args.tag_name, args.issue_id>>

\* C14: the trigger kind is a fixed function of event_type: every upsert an
\* envelope makes is the PullRequest one keyed by pr_id for the pull-request,
\* pull-request-comment and CheckRerunPullRequest types, the Branch one keyed by
\* git_ref for the push and CheckRerunCommit types, the Release one keyed by
\* tag_name for the Release and CheckRerunRelease types, and the Issue one
\* keyed by issue_id for the issue-comment types; a db_trigger read that
\* returns for such a type has made exactly one upsert and yields the stored
\* record of that kind and key; any other event_type makes no upsert and
\* yields None.
C14_TriggerKindTable ==
    LET t == envelope.event_type
    IN /\ \A n \in 1..Len(upserts) :
            LET args == upserts[n]
            IN \/ /\ t \in PullRequestEvents
                  /\ args.kind = "PullRequest"
                  /\ Keys(args) = <<envelope.pr_id, None, None, 0>>
               \/ /\ t \in PushEvents
                  /\ args.kind = "Branch"
                  /\ Keys(args) = <<0, envelope.git_ref, None, 0>>
               \/ /\ t \in ReleaseEvents
                  /\ args.kind = "Release"
                  /\ Keys(args) = <<0, None, envelope.tag_name, 0>>
               \/ /\ t \in IssueEvents
                  /\ args.kind = "Issue"
                  /\ Keys(args) = <<0, None, None, envelope.issue_id>>
       /\ (ReadDbTrigger /\ last_read.raised = None /\ t \notin OtherEvents) =>
             /\ Len(upserts) = 1
             /\ last_read.trigger \in triggers
             /\ last_read.trigger.kind = upserts[1].kind
             /\ Keys(last_read.trigger) = Keys(upserts[1])
             /\ last_read.trigger.id # 0
       /\ t \in OtherEvents =>
             /\ upserts = <<>>
             /\ triggers \in {{}, Stored}
             /\ ReadDbTrigger => last_read.trigger = NoTrigger
C14_Witness ==
    /\ ReadDbTrigger
    /\ last_read.n >= 2
    /\ envelope.event_type = "CheckRerunCommitEvent"
    /\ last_read.trigger.kind = "Branch"
    /\ last_read.trigger.branch_name = "main"
    /\ Len(upserts) = 1

\* C15: a db_trigger read of an envelope with no project URL yields None and
\* does not raise, whatever the event type.
C15_UnresolvableYieldsNone ==
    (ReadDbTrigger /\ envelope.project_url = None) =>
        last_read.raised = None /\ last_read.trigger = NoTrigger


\* the cache of a lazy field, and whether it holds nothing
CacheOf(f) ==
    CASE f = "EventData.project" -> envelope.cached_project
      [] f = "EventData.db_trigger" -> envelope.cached_db_trigger
      [] f = "project" -> forge_event.cached_project
      [] f = "base_project" -> forge_event.cached_base_project
      [] f = "package_config" -> forge_event.cached_package_config
Unset(f) ==
    CASE f \in {"EventData.project", "project", "base_project"} ->
            CacheOf(f) = NoProject
      [] f = "EventData.db_trigger" -> CacheOf(f) = NoTrigger
      [] f = "package_config" -> CacheOf(f) = NoConfig
\* what a read of the field returned
ReadValue(f, read) ==
    CASE f \in {"EventData.project", "project", "base_project"} -> read.project
      [] f = "EventData.db_trigger" -> read.trigger
      [] f = "package_config" -> read.config

\* C16: no resolver of a lazy field runs more than once over the reads of the
\* field, whatever it resolves to (None included).
C16_Original == \A f \in LazyFields : resolver_calls[f] <= 1

\* C16, the part the code keeps: once a lazy field holds a value other than
\* None its resolver never runs again and the value never changes: a read of
\* it returns the cached value and calls neither a resolver nor the store.  A field still unset (its
\* resolver returned None or raised, or it was never read) runs its resolver
\* again at every read.
C16_ResolvedOnceCached ==
    [][\A f \in LazyFields :
          /\ ~Unset(f) =>
                /\ resolver_calls'[f] = resolver_calls[f]
                /\ CacheOf(f)' = CacheOf(f)
          /\ (last_read'.field = f /\ ~Unset(f)) =>
                /\ resolver_calls' = resolver_calls
                /\ triggers' = triggers
                /\ upserts' = upserts
                /\ last_read'.raised = None
                /\ ReadValue(f, last_read') = CacheOf(f)
          /\ (last_read'.field = f /\ Unset(f)) =>
                resolver_calls'[f] > resolver_calls[f]]_vars
C16_Witness ==
    /\ last_read.n = 3
    /\ ReadDbTrigger
    /\ last_read.trigger # NoTrigger
    /\ \A f \in LazyFields :
          resolver_calls[f] = IF f \in {"EventData.project", "EventData.db_trigger"}
                              THEN 1 ELSE 0


\* ------------------------------------- get_packit_commands_from_comment
\* A comment body is a sequence of tokens: a space, a newline, or a run of
\* other characters taken whole.  Tokens that touch form one word.
MaxCommentLen == 6
REQUESTED_PULL_REQUEST_COMMENT == "/packit"
Newline == "\n"
Whitespace == {" "}
Tokens == Whitespace \cup {Newline, REQUESTED_PULL_REQUEST_COMMENT, "build", "x"}

RECURSIVE Pieces(_, _)
\* the runs of tokens between the separators, empty runs included
Pieces(seq, seps) ==
    IF seq = <<>> THEN << <<>> >>
    ELSE LET rest == Pieces(Tail(seq), seps)
         IN IF Head(seq) \in seps THEN << <<>> >> \o rest
            ELSE << <<Head(seq)>> \o rest[1] >> \o Tail(rest)

NonEmpty(piece) == piece # <<>>
\* the lines of a comment
Lines(body) == Pieces(body, {Newline})
\* the words of a line: trimmed, whitespace collapsed
Words(line) == SelectSeq(Pieces(line, Whitespace), NonEmpty)

Command(name, args) == [name |-> name, args |-> args]

\* the command of a line, if it is /packit, whitespace and a command name
packit_command_embedded(words) ==
    LET at == {n \in 1..Len(words) - 1 : words[n] = <<REQUESTED_PULL_REQUEST_COMMENT>>}
    IN IF at # {}
       THEN LET n == CHOOSE n \in at : \A m \in at : n <= m
            IN <<Command(words[n + 1], SubSeq(words, n + 2, Len(words)))>>
       ELSE <<>>
packit_command(words) ==
    IF Len(words) >= 2 /\ words[1] = <<REQUESTED_PULL_REQUEST_COMMENT>>
    THEN <<Command(words[2], SubSeq(words, 3, Len(words)))>>
    ELSE <<>>

RECURSIVE CommandsOf(_)
CommandsOf(lines) ==
    IF lines = <<>> THEN <<>>
    ELSE packit_command(Words(Head(lines))) \o CommandsOf(Tail(lines))

\* the commands of the qualifying lines, in line order
get_packit_commands_from_comment(body) == CommandsOf(Lines(body))

\* ------------------------------------------- SteveJobs.process_message
\* the command keywords the registry holds a handler for
KnownCommands == {<<"build">>, <<"test">>, <<"production_build">>}

\* whether a command runs a handler
has_handler_any(command) == TRUE
has_handler(command) == command.name \in KnownCommands

HandlerRun(command) == [handler |-> command.name, args |-> command.args]
JobOutcome(command) == [job |-> command.name, success |-> TRUE, details |-> EmptyDict]

RECURSIVE Dispatch(_)
\* the handlers run for the commands, in line order; unknown ones are skipped
Dispatch(cmds) ==
    IF cmds = <<>> THEN <<>>
    ELSE (IF has_handler(Head(cmds)) THEN <<Head(cmds)>> ELSE <<>>)
         \o Dispatch(Tail(cmds))

RECURSIVE CommentsOf(_)
\* every body of at most n tokens
CommentsOf(n) ==
    IF n = 0 THEN {<<>>}
    ELSE LET shorter == CommentsOf(n - 1)
         IN shorter \cup {Append(c, t) : c \in {s \in shorter : Len(s) = n - 1},
                                         t \in Tokens}

InitComment ==
    /\ comment \in CommentsOf(MaxCommentLen)
    /\ comment_pc = "new"
    /\ commands = <<>>
    /\ handlers_run = <<>>
    /\ processing_results = <<>>

\* get_packit_commands_from_comment(comment)
GetCommands ==
    /\ comment_pc = "new"
    /\ commands' = get_packit_commands_from_comment(comment)
    /\ comment_pc' = "parsed"
    /\ UNCHANGED <<tfVars, resVars, triggers, envVars, dspVars, deliveries, in_flight,
                   comment, handlers_run,
                   processing_results>>

\* SteveJobs().process_message(event) of the pull-request comment event
ProcessMessage ==
    /\ comment_pc = "new"
    /\ commands' = get_packit_commands_from_comment(comment)
    /\ LET run == Dispatch(commands')
       IN /\ handlers_run' = [n \in 1..Len(run) |-> HandlerRun(run[n])]
          /\ processing_results' = [n \in 1..Len(run) |-> JobOutcome(run[n])]
    /\ comment_pc' = "processed"
    /\ UNCHANGED <<tfVars, resVars, triggers, envVars, dspVars, deliveries, in_flight,
                   comment>>

InitComments ==
    /\ InitComment /\ IdleHandler /\ IdleResults /\ IdleEnvelope /\ triggers = {}
    /\ IdleDispatch /\ IdleRace /\ IdleCallbacks
NextComments == GetCommands \/ ProcessMessage
SpecComment == InitComments /\ [][NextComments]_vars


\* position n of the comment is blank up to its line's start
LineStart(n) ==
    \A k \in 1..(n - 1) :
       comment[k] \in Whitespace \/ \E m \in k..(n - 1) : comment[m] = Newline
\* position n starts a word that ends its line but for whitespace
LastWord(n) ==
    \A k \in (n + 1)..Len(comment) :
       comment[k] \in Whitespace \/ \E m \in (n + 1)..k : comment[m] = Newline
\* position n holds the /packit of a qualifying line whose command name
\* starts at position c
Qualifies(n, c) ==
    /\ comment[n] = REQUESTED_PULL_REQUEST_COMMENT
    /\ LineStart(n)
    /\ c > n + 1
    /\ \A m \in (n + 1)..(c - 1) : comment[m] \in Whitespace
    /\ comment[c] \notin Whitespace \cup {Newline}
Qualifying ==
    {p \in (1..Len(comment)) \X (1..Len(comment)) : Qualifies(p[1], p[2])}
Parsed == comment_pc \in {"parsed", "processed"}

\* C18: the parser returns one command per line that, trimmed, starts with
\* the token /packit followed by whitespace and a command name, and nothing
\* else: none for a comment without such a line (empty, blank, unrelated, or
\* /packit only mid-line), and exactly the command build when the only such
\* line is /packit build, whatever lines, blank lines and spaces surround it.
C18_CommandsOfQualifyingLines ==
    Parsed =>
       /\ Len(commands) = Cardinality(Qualifying)
       /\ Qualifying = {} => commands = <<>>
       /\ \A p \in Qualifying :
             (Qualifying = {p} /\ comment[p[2]] = "build" /\ LastWord(p[2])) =>
                commands = <<Command(<<"build">>, <<>>)>>
C18_Witness ==
    /\ comment_pc = "parsed"
    /\ comment = <<"x", Newline, REQUESTED_PULL_REQUEST_COMMENT, " ", "build", Newline>>
    /\ commands = <<Command(<<"build">>, <<>>)>>

\* the comment is /packit alone, but for whitespace and blank lines
PackitOnly ==
    /\ \E n \in 1..Len(comment) : comment[n] = REQUESTED_PULL_REQUEST_COMMENT
    /\ \A n \in 1..Len(comment) :
          comment[n] \in Whitespace \cup {Newline, REQUESTED_PULL_REQUEST_COMMENT}
    /\ Qualifying = {}
\* every command of the comment has a name no handler is registered for
NameIsBuild(c) ==
    /\ comment[c] = "build"
    /\ c = Len(comment) \/ comment[c + 1] \in Whitespace \cup {Newline}
UnknownCommandsOnly ==
    /\ Qualifying # {}
    /\ \A p \in Qualifying : ~NameIsBuild(p[2])

\* C19: processing a pull-request comment that is empty, holds /packit with no
\* command, or holds only unknown /packit commands returns, runs no handler
\* and yields an empty list of outcomes.
C19_NothingToRun ==
    (comment_pc = "processed" /\ (comment = <<>> \/ PackitOnly \/ UnknownCommandsOnly)) =>
        handlers_run = <<>> /\ processing_results = <<>>
C19_Witness ==
    /\ comment_pc = "processed"
    /\ comment = <<REQUESTED_PULL_REQUEST_COMMENT, " ", "x">>
    /\ commands = <<Command(<<"x">>, <<>>)>>
    /\ processing_results = <<>>


\* the report calls among the effects of the handler that ran last
ReportEffects == {n \in 1..Len(effects) : effects[n].op = "report"}
KnownPipeline == get_by_pipeline_id(callback.pipeline_id) # NoRun

\* C21: every callback handled makes exactly one status report: it carries the
\* mapped status and summary, the external link "Testing Farm" to log_url,
\* and as details URL the run-info URL of the run record when there is one
\* and the raw log_url when there is none.
C21_OneReportPerCallback ==
    Handled =>
       /\ Cardinality(ReportEffects) = 1
       /\ report.state = map_result(callback.result).status
       /\ report.description =
             summary_or(callback.summary, map_result(callback.result).summary)
       /\ report.links_to_external_services = ("Testing Farm" :> callback.log_url)
       /\ report.url =
             IF KnownPipeline
             THEN get_testing_farm_info_url(get_by_pipeline_id(callback.pipeline_id).id)
             ELSE <<callback.log_url>>

\* the step handles a callback
HandlesCallback == handled' = handled + 1
\* the observations the step adds
Started == run_metrics'.test_runs_started - run_metrics.test_runs_started
Finished == run_metrics'.test_runs_finished - run_metrics.test_runs_finished
Timed == Len(run_metrics'.test_run_finished_time)
         - Len(run_metrics.test_run_finished_time)

\* C24: every callback handled records exactly one observation: test-started
\* for the result running, test-finished otherwise, with the elapsed time
\* since the run was submitted exactly when the run record was found; a
\* missing run record prevents neither the finished observation nor the
\* status report.
C24_OneObservation ==
    [][HandlesCallback =>
          LET found == get_by_pipeline_id(callback'.pipeline_id) # NoRun
          IN /\ IF callback'.result = "running"
                THEN Started = 1 /\ Finished = 0 /\ Timed = 0
                ELSE Started = 0 /\ Finished = 1 /\ Timed = (IF found THEN 1 ELSE 0)
             /\ (callback'.result # "running" /\ ~found) =>
                   report' # NoReport /\ outcome'.raised = None]_vars


\* C30: when the handler of a callback with a known pipeline_id reports the
\* status, it has already stored the callback's result as the run's status
\* and the callback's log_url as its URL: both store calls come before the
\* report call, and the record holds both values.
C30_StoreBeforeReport ==
    (Handled /\ KnownPipeline /\ ReportEffects # {}) =>
       /\ report # NoReport
       /\ \A r \in ReportEffects :
             /\ \E n \in 1..(r - 1) :
                   effects[n] = Effect("set_status", callback.result)
             /\ \E n \in 1..(r - 1) :
                   effects[n] = Effect("set_web_url", callback.log_url)
       /\ get_by_pipeline_id(callback.pipeline_id).status = callback.result
       /\ get_by_pipeline_id(callback.pipeline_id).web_url = callback.log_url
C30_Witness ==
    /\ handled = 1
    /\ KnownPipeline
    /\ prev_status = "queued"
    /\ callback.result = "passed"
    /\ callback.log_url # None
    /\ report.state = "success"
    /\ effects[Len(effects)].op = "report"


\* ------------------------- a pass and a completion callback, interleaved
\* One TestingFarmHandler.run pass over at most one target (the store holds
\* no build of another target) and one completion callback, handled at any
\* point of the pass.
InitBoth ==
    /\ InitHandler
    /\ Len(targets) <= 1
    /\ build_id = 0
    /\ \A n \in 1..NumTargets : Chroot(n) \notin Targets => copr_builds[n] = NoBuild
    /\ InitResults
    /\ IdleEnvelope
    /\ IdleComment /\ IdleDispatch /\ IdleRace /\ IdleCallbacks
FirstCallback == handled = 0 /\ TestingFarmResultsRun
NextBoth == Next \/ FirstCallback
SpecBoth == InitBoth /\ [][NextBoth]_vars

\* C25: the status of a run record changes only in the step that handles a
\* completion callback for its pipeline_id; no step of TestingFarmHandler.run
\* changes it, so a run is in a terminal status only after a callback for it
\* was handled.
C25_StatusOnlyByCallback ==
    /\ [][\A p \in Pipelines :
             test_runs'[p].status # test_runs[p].status =>
                HandlesCallback /\ callback'.pipeline_id = p]_vars
    /\ [](\A p \in Pipelines :
             test_runs[p].status \in Terminal =>
                Handled /\ callback.pipeline_id = p)
C25_Witness ==
    /\ Done
    /\ test_submissions # <<>>
    /\ Handled
    /\ \E p, q \in Pipelines :
          /\ callback.pipeline_id = p
          /\ test_runs[p].status \in Terminal
          /\ test_runs[q].status = "queued"


\* C22: when a run_testing_farm call of the pass answered with a non-success
\* result, the finished pass has still dealt with every with-build target
\* (one test submission for a succeeded build, one failure notification for
\* any other build) and has still enqueued the build job for the
\* without-build targets.
C22_FailureDoesNotAbort ==
    (Done /\ FailedSubmissions # {}) =>
       /\ \A n \in 1..Len(targets_with_builds) :
             LET t == targets_with_builds[n].key
             IN IF NotSucceeded(n)
                THEN Cardinality(FailureReports(t)) = 1 /\ Submitted(t) = {}
                ELSE SubmittedOnce(t)
       /\ targets_without_build # <<>> =>
             /\ Len(build_jobs) = 1
             /\ build_jobs[1].event.targets_override = targets_without_build
C22_Witness ==
    /\ Done
    /\ Len(test_submissions) = 2
    /\ ~test_submissions[1].result.success
    /\ test_submissions[2].result.success
    /\ Len(build_jobs) = 1


PendingReports(t) ==
    {n \in 1..Len(status_reports) :
        status_reports[n].state = "pending" /\ status_reports[n].chroot = t}
EmitsPending ==
    /\ Len(status_reports') = Len(status_reports) + 1
    /\ status_reports'[Len(status_reports')].state = "pending"

\* C23: in one pass a pending notification is emitted only while no build job
\* is enqueued and no test run is submitted; the build job is enqueued when
\* every without-build target has its one pending notification and before
\* any test run is submitted; a finished pass has emitted exactly one pending
\* notification per without-build target, none for any other target, and has
\* enqueued at most one build job.
C23_PendingThenBuildThenTests ==
    [][/\ EmitsPending =>
             build_jobs = <<>> /\ build_jobs' = <<>> /\ test_submissions' = <<>>
       /\ build_jobs' # build_jobs =>
             /\ test_submissions' = <<>>
             /\ \A t \in WithoutBuild : Cardinality(PendingReports(t)) = 1
       /\ test_submissions' # test_submissions =>
             (targets_without_build # <<>> => Len(build_jobs) = 1)
       /\ pc' = "done" =>
             /\ \A t \in Chroots :
                   Cardinality(PendingReports(t)') = IF t \in WithoutBuild THEN 1 ELSE 0
             /\ Len(build_jobs') = IF targets_without_build # <<>> THEN 1 ELSE 0]_vars
C23_Witness ==
    /\ Done
    /\ Len(targets_without_build) = 2
    /\ \A t \in WithoutBuild : Cardinality(PendingReports(t)) = 1
    /\ Len(build_jobs) = 1
    /\ Len(test_submissions) = 1


InitPass ==
    /\ InitHandler
    /\ build_id = 0
    /\ \A n \in 1..NumTargets : Chroot(n) \notin Targets => copr_builds[n] = NoBuild
    /\ \A i, j \in 1..Len(targets) :
          i < j => ChrootIndex(targets[i]) < ChrootIndex(targets[j])
    /\ InitResults
    /\ \A p \in Pipelines : test_runs[p] = NewTestRun(p)
    /\ IdleEnvelope
    /\ IdleComment /\ IdleDispatch /\ IdleRace /\ IdleCallbacks
\* the worker goes on with the pass whenever it can; nothing makes a test
\* run's callback arrive
TestCompleted ==
    /\ handled = 0
    /\ TestingFarmResultsRun
    /\ callback'.result = "passed"
    /\ callback'.pipeline_id = 1
    /\ callback'.log_url = None
    /\ callback'.summary = None
    /\ callback'.copr_chroot = Chroot(1)
NextPass == Next \/ TestCompleted
SpecFair == InitPass /\ [][NextPass]_vars /\ WF_vars(Next)
HandedOff ==
    /\ targets_without_build # <<>> => Len(build_jobs) = 1
    /\ \A n \in 1..Len(targets_with_builds) :
          ~NotSucceeded(n) => SubmittedOnce(targets_with_builds[n].key)
NoJobCompleted ==
    /\ handled = 0
    /\ \A p \in Pipelines : test_runs[p].status \notin Terminal

\* C26: every pass over a finite target list ends, with its TaskResults
\* returned and the build job and the test runs handed off, whether or
\* not a callback for a test run ever arrives.
C26_PassTerminates == <>(Done /\ task_result # NoResult /\ HandedOff)
C26_Witness ==
    /\ Done
    /\ task_result # NoResult
    /\ Len(build_jobs) = 1
    /\ Len(test_submissions) = 2
    /\ NoJobCompleted


EnvelopeFields == {"EventData.project", "EventData.db_trigger"}
Serialized == last_read.field = "EventData.get_dict"

\* C29: once the cached project or the cached trigger of an EventData holds
\* a value other than None, no read of a property and no get_dict changes
\* it, and every later read of the property returns that value without
\* raising.
C29_SetValueNeverChanges ==
    [][\A f \in EnvelopeFields :
          ~Unset(f) =>
             /\ CacheOf(f)' = CacheOf(f)
             /\ last_read'.field = f =>
                   last_read'.raised = None /\ ReadValue(f, last_read') = CacheOf(f)]_vars
C29_Witness ==
    /\ last_read.n = 3
    /\ last_read.field = "EventData.db_trigger"
    /\ last_read.trigger = envelope.cached_db_trigger
    /\ envelope.cached_db_trigger # NoTrigger
    /\ envelope.cached_project # NoProject
    /\ serialized # <<>>
    /\ resolver_calls["EventData.db_trigger"] = 1


\* ------------------------------------- the target override of a dispatch
MaxDispatches == 2

\* an Optional[Set[str]]: None, or a set
Absent == [given |-> FALSE, items |-> {}]
SetOf(S) == [given |-> TRUE, items |-> S]
\* an Optional[List[str]]: None, or a list
NoList == [given |-> FALSE, items |-> <<>>]
ListOf(l) == [given |-> TRUE, items |-> l]

\* event.py line 61: set(targets_override) if targets_override else None
EventData_targets_override(listed) ==
    IF listed.given /\ listed.items # <<>> THEN SetOf(ToSet(listed.items)) ELSE Absent

\* the chroot argument of a handler: None, the empty string, or a chroot
ChrootArgs == {None, ""} \cup Chroots

\* lines 106-108, with the envelope's override taking precedence over the chroot
helper_targets_override_envelope_first(chroot, data_override) ==
    IF data_override.given THEN data_override
    ELSE IF chroot \notin {None, ""} THEN SetOf({chroot}) ELSE Absent
\* lines 106-108: {self.chroot} if self.chroot else self.data.targets_override
helper_targets_override(chroot, data_override) ==
    IF chroot \notin {None, ""} THEN SetOf({chroot}) ELSE data_override

InitDispatch ==
    /\ override_list \in {NoList} \cup {ListOf(l) : l \in ListsOf(Chroots)}
    /\ metadata = <<>>
    /\ dispatches = <<>>

\* EventData.from_event_dict(event): the envelope of the event dict
FromEventDict ==
    /\ DOMAIN metadata = {}
    /\ metadata' = [targets_override |-> EventData_targets_override(override_list)]
    /\ UNCHANGED <<tfVars, resVars, triggers, envVars, cmtVars, deliveries, in_flight,
                   override_list, dispatches>>

\* lines 67-82 and 99-109: a handler made for the envelope, with or without a
\* chroot, builds its TestingFarmJobHelper
ConstructHelper ==
    /\ DOMAIN metadata # {}
    /\ Len(dispatches) < MaxDispatches
    /\ \E chroot \in ChrootArgs :
          dispatches' = Append(dispatches,
             [chroot |-> chroot,
              targets_override |->
                 helper_targets_override(chroot, metadata.targets_override)])
    /\ UNCHANGED <<tfVars, resVars, triggers, envVars, cmtVars, deliveries, in_flight,
                   override_list, metadata>>

InitOverrides ==
    /\ InitDispatch /\ IdleHandler /\ IdleResults /\ IdleEnvelope /\ IdleComment
    /\ IdleRace /\ IdleCallbacks /\ triggers = {}
NextOverrides == FromEventDict \/ ConstructHelper
SpecOverride == InitOverrides /\ [][NextOverrides]_vars

GivenChroot(c) == c \notin {None, ""}
Listed == override_list.given /\ override_list.items # <<>>

\* C28: every handler run over an envelope hands on the singleton of its
\* chroot when it was given one, otherwise the set of the targets listed in
\* the event's targets_override, otherwise None; an empty targets_override
\* list is handed on as None like a missing one; and the envelope's own
\* override stays what the event listed, whatever chroots the handlers
\* were given.
C28_OverrideHandedOn ==
    /\ \A n \in 1..Len(dispatches) :
          LET c == dispatches[n].chroot
              handed == dispatches[n].targets_override
          IN /\ GivenChroot(c) => handed = SetOf({c})
             /\ (~GivenChroot(c) /\ Listed) =>
                   handed = SetOf(ToSet(override_list.items))
             /\ (~GivenChroot(c) /\ ~Listed) => handed = Absent
    /\ DOMAIN metadata # {} =>
          metadata.targets_override =
             IF Listed THEN SetOf(ToSet(override_list.items)) ELSE Absent
C28_Witness ==
    /\ Len(dispatches) = 2
    /\ dispatches[1].chroot = Chroot(1)
    /\ dispatches[1].targets_override = SetOf({Chroot(1)})
    /\ dispatches[2].chroot = None
    /\ override_list = ListOf(<<Chroot(2), Chroot(3)>>)
    /\ dispatches[2].targets_override = SetOf({Chroot(2), Chroot(3)})
C28_WitnessEmptyList ==
    /\ Len(dispatches) = 1
    /\ dispatches[1].chroot = None
    /\ override_list = ListOf(<<>>)
    /\ dispatches[1].targets_override = Absent


\* ------------------------------------ concurrent reads of EventData.db_trigger
NumDeliveries == 2
Deliveries == 1..NumDeliveries

\* envelopes of the one repository: two pull-request types and two pull
\* requests, a push, a release, an issue comment, a type outside the table,
\* and one without a project URL
RaceEnvelopes ==
    {[EventDataOf(t, ProjectUrl, {}) EXCEPT !.pr_id = n] :
        t \in {"PullRequestGithubEvent", "PullRequestCommentGithubEvent"},
        n \in {9, 10}}
    \cup {EventDataOf(t, ProjectUrl, {}) :
            t \in {"PushGitHubEvent", "ReleaseEvent", "IssueCommentEvent",
                   "TestingFarmResultsEvent"}}
    \cup {EventDataOf("PullRequestCommentGithubEvent", None, {})}

Delivery(d, at, args, value, raised) ==
    [d |-> d, at |-> at, args |-> args, value |-> value, raised |-> raised]

InitDeliveries ==
    /\ deliveries \in [Deliveries ->
                         {Delivery(d, "read", NoTrigger, NoTrigger, None) :
                             d \in RaceEnvelopes}]
    /\ triggers \in {{}, Stored}

\* lines 111-160 up to the call: the branch of the event type and the
\* keyword arguments, self.project.namespace and self.project.repo included
Arguments(w) ==
    /\ deliveries[w].at = "read"
    /\ LET d == deliveries[w].d
           kind == trigger_kind(d.event_type)
           first == EventData_project(Resolving(d, triggers))
           second == EventData_project(first.s)
       IN deliveries' = [deliveries EXCEPT ![w] =
             IF kind = None
             THEN Delivery(d, "done", NoTrigger, NoTrigger, None)
             ELSE IF first.value = NoProject
             THEN Delivery(first.s.d, "done", NoTrigger, NoTrigger, "AttributeError")
             ELSE Delivery(second.s.d, "upsert",
                           get_or_create_args(kind, d, first.value.namespace,
                                              second.value.repo),
                           NoTrigger, None)]
    /\ UNCHANGED <<tfVars, resVars, triggers, envVars, cmtVars, dspVars, in_flight>>

\* the get_or_create call of lines 124, 136, 144 or 155 in the store
Upsert(w) ==
    /\ deliveries[w].at = "upsert"
    /\ LET got == get_or_create(triggers, deliveries[w].args)
       IN /\ triggers' = got.store
          /\ deliveries' = [deliveries EXCEPT ![w].value = got.value,
                                              ![w].at = "assign"]
    /\ UNCHANGED <<tfVars, resVars, envVars, cmtVars, dspVars, in_flight>>

\* self._db_trigger = <the record returned>, and the return of line 166
Assign(w) ==
    /\ deliveries[w].at = "assign"
    /\ deliveries' = [deliveries EXCEPT
                        ![w].d.cached_db_trigger = deliveries[w].value,
                        ![w].at = "done"]
    /\ UNCHANGED <<tfVars, resVars, triggers, envVars, cmtVars, dspVars, in_flight>>

InitRace ==
    /\ InitDeliveries /\ IdleHandler /\ IdleResults /\ IdleEnvelope /\ IdleComment
    /\ IdleDispatch /\ IdleCallbacks
NextRace == \E w \in Deliveries : Arguments(w) \/ Upsert(w) \/ Assign(w)
SpecRace == InitRace /\ [][NextRace]_vars

Resolved(w) ==
    /\ deliveries[w].at = "done"
    /\ deliveries[w].raised = None
    /\ deliveries[w].args # NoTrigger
SameNaturalKey(v, w) ==
    [deliveries[v].args EXCEPT !.commit_hash = None] =
    [deliveries[w].args EXCEPT !.commit_hash = None]
RecordsOf(args) == {t \in triggers : SameKey(t, args)}

\* C27: whatever the interleaving of the deliveries' reads of db_trigger, two
\* deliveries that resolved the same natural key hold the same stored record,
\* the store holds exactly one record of that key, and a read raises only for
\* an envelope without a project URL, which raises when read alone too.
C27_RaceOnSameKey ==
    /\ \A v, w \in Deliveries :
          (v # w /\ Resolved(v) /\ Resolved(w) /\ SameNaturalKey(v, w)) =>
             /\ deliveries[v].d.cached_db_trigger = deliveries[w].d.cached_db_trigger
             /\ deliveries[v].d.cached_db_trigger \in triggers
             /\ Cardinality(RecordsOf(deliveries[v].args)) = 1
    /\ \A w \in Deliveries :
          deliveries[w].raised # None => deliveries[w].d.project_url = None
C27_Witness ==
    /\ Resolved(1) /\ Resolved(2)
    /\ SameNaturalKey(1, 2)
    /\ deliveries[1].d.event_type # deliveries[2].d.event_type
    /\ deliveries[1].d.cached_db_trigger = deliveries[2].d.cached_db_trigger
    /\ triggers = {deliveries[1].d.cached_db_trigger}


\* ------------------------- TestingFarmResultsHandler.run, run concurrently
\* one callback per pipeline id, each handled by a worker of its own
InFlight(event, at, found, raised) ==
    [event |-> event, at |-> at, found |-> found, raised |-> raised]
CallbacksFor(p) ==
    {e \in TestingFarmResultsEvents :
        /\ e.pipeline_id = p
        /\ e.summary = None
        /\ e.log_url # None}

InitInFlight ==
    /\ in_flight \in [Pipelines -> UNION {{InFlight(e, "get", FALSE, None) :
                                             e \in CallbacksFor(p)} : p \in Pipelines}]
    /\ \A p \in Pipelines : in_flight[p].event.pipeline_id = p

Mapped(event) ==
    [status |-> map_result(event.result).status,
     summary |-> summary_or(event.summary, map_result(event.result).summary)]

\* the end of a run() that raised: the callback is over without a report
Ended(p, error, line) ==
    /\ in_flight' = [in_flight EXCEPT ![p].at = "raised", ![p].raised = error]
    /\ callback' = in_flight[p].event
    /\ handled' = handled + 1
    /\ outcome' = Raised(Mapped(in_flight[p].event), error, line)
    /\ report' = NoReport

\* lines 239-246: test_run_model = TFTTestRunModel.get_by_pipeline_id(...)
GetRun(p) ==
    /\ in_flight[p].at = "get"
    /\ in_flight' = [in_flight EXCEPT ![p].at = "set_status",
                                      ![p].found = get_by_pipeline_id(p) # NoRun]
    /\ prev_status' = get_by_pipeline_id(p).status
    /\ UNCHANGED <<test_runs, handled, callback, outcome, report, run_metrics, effects>>
    /\ UNCHANGED <<tfVars, triggers, envVars, cmtVars, dspVars, deliveries>>

\* lines 248-271: set_status on the run that was found, then the metrics
SetStatus(p) ==
    /\ in_flight[p].at = "set_status"
    /\ LET event == in_flight[p].event
           found == in_flight[p].found
       IN /\ test_runs' = save(test_runs, p, found,
                               apply_result(found, test_runs[p], event.result))
          /\ IF event.result = "running"
             THEN /\ run_metrics' = [run_metrics EXCEPT !.test_runs_started = @ + 1]
                  /\ in_flight' = [in_flight EXCEPT ![p].at = "set_web_url"]
                  /\ UNCHANGED <<handled, callback, outcome, report>>
             ELSE IF found
             THEN /\ run_metrics' = [run_metrics EXCEPT
                        !.test_runs_finished = @ + 1,
                        !.test_run_finished_time =
                            Append(@, handled + 1 - test_runs[p].submitted_time)]
                  /\ in_flight' = [in_flight EXCEPT ![p].at = "set_web_url"]
                  /\ UNCHANGED <<handled, callback, outcome, report>>
             ELSE \* line 269: None has no submitted_time
                  /\ run_metrics' = [run_metrics EXCEPT !.test_runs_finished = @ + 1]
                  /\ Ended(p, "AttributeError", 269)
    /\ UNCHANGED <<prev_status, effects>>
    /\ UNCHANGED <<tfVars, triggers, envVars, cmtVars, dspVars, deliveries>>

\* lines 273-279: set_web_url on the run that was found, then self.db_trigger
SetWebUrl(p) ==
    /\ in_flight[p].at = "set_web_url"
    /\ LET event == in_flight[p].event
           found == in_flight[p].found
       IN /\ test_runs' = save(test_runs, p, found,
                               IF found THEN set_web_url(test_runs[p], event.log_url)
                               ELSE test_runs[p])
          /\ IF get_by_pipeline_id(p) = NoRun
             THEN \* line 277: None has no job_trigger_model_type
                  Ended(p, "AttributeError", 277)
             ELSE /\ in_flight' = [in_flight EXCEPT ![p].at = "report"]
                  /\ UNCHANGED <<handled, callback, outcome, report>>
    /\ UNCHANGED <<run_metrics, prev_status, effects>>
    /\ UNCHANGED <<tfVars, triggers, envVars, cmtVars, dspVars, deliveries>>

\* lines 280-296: the status report and the return
Report(p) ==
    /\ in_flight[p].at = "report"
    /\ LET event == in_flight[p].event
           found == in_flight[p].found
       IN /\ report' =
               [state |-> Mapped(event).status,
                description |-> Mapped(event).summary,
                url |-> IF found THEN get_testing_farm_info_url(test_runs[p].id)
                        ELSE <<event.log_url>>,
                links_to_external_services |-> ("Testing Farm" :> event.log_url)]
          /\ outcome' = Returned(Mapped(event), TaskResults(TRUE, EmptyDict))
          /\ callback' = event
    /\ handled' = handled + 1
    /\ in_flight' = [in_flight EXCEPT ![p].at = "done"]
    /\ UNCHANGED <<test_runs, run_metrics, prev_status, effects>>
    /\ UNCHANGED <<tfVars, triggers, envVars, cmtVars, dspVars, deliveries>>

InitInterleaved ==
    /\ InitInFlight /\ InitResults /\ IdleHandler /\ IdleEnvelope /\ IdleComment
    /\ IdleDispatch /\ IdleRace /\ triggers = {}
NextInterleaved ==
    \E p \in Pipelines : GetRun(p) \/ SetStatus(p) \/ SetWebUrl(p) \/ Report(p)
SpecInterleaved == InitInterleaved /\ [][NextInterleaved]_vars

Over(p) == in_flight[p].at \in {"done", "raised"}
\* the record of pipeline p after its callback, had it been the only one
HandledAlone(p) ==
    IF in_flight[p].found
    THEN [NewTestRun(p) EXCEPT !.status = in_flight[p].event.result,
                               !.web_url = in_flight[p].event.log_url]
    ELSE NoRun

\* C31: a step of the handler of the callback for pipeline p leaves every
\* other pipeline's run record as it was, and once that handler is over the
\* record of p is what the callback alone makes of it, whatever the order
\* and interleaving of the handlers of the other pipelines' callbacks.
C31_OnlyAddressedRun ==
    /\ [][\A p \in Pipelines :
             in_flight'[p] # in_flight[p] =>
                \A q \in Pipelines \ {p} : test_runs'[q] = test_runs[q]]_vars
    /\ [](\A p \in Pipelines : Over(p) => test_runs[p] = HandledAlone(p))
C31_Witness ==
    /\ \A p \in Pipelines : in_flight[p].at = "done" /\ in_flight[p].found
    /\ callback.pipeline_id = 1
    /\ test_runs[1].status = "passed"
    /\ test_runs[2].status = "failed"


\* --------------------------------- an EventData serialized and built again
\* lines 80-84: a timestamp of 0 is falsy, like a missing one
accepted_time_of(timestamp) ==
    IF timestamp # NoTimestamp /\ timestamp # 0
    THEN [sec |-> timestamp, usec |-> 0] ELSE NoTime

\* lines 67-101: EventData.from_event_dict(event)
from_event_dict(event) ==
    LET override == EventData_targets_override(ListOf(event.targets_override))
    IN [event_type |-> event.event_type,
        user_login |-> event.user_login,
        trigger_id |-> event.trigger_id,
        project_url |-> event.project_url,
        tag_name |-> event.tag_name,
        git_ref |-> event.git_ref,
        pr_id |-> event.pr_id,          \* no _pr_id key in an EventData's dict
        commit_sha |-> event.commit_sha,
        identifier |-> event.identifier,
        issue_id |-> event.issue_id,
        task_accepted_time |-> accepted_time_of(event.task_accepted_time),
        targets_override |-> IF override.given THEN override.items ELSE {},
        cached_project |-> NoProject,
        cached_db_trigger |-> NoTrigger]

AcceptedTimes == {NoTime, [sec |-> 0, usec |-> 5], [sec |-> 1, usec |-> 5]}
\* no override, one target, or all of them
RoundTripOverrides == {{}, Chroots} \cup {{c} : c \in Chroots}
RoundTripEnvelopes ==
    {[EventDataOf("PullRequestCommentGithubEvent", ProjectUrl, o) EXCEPT
         !.pr_id = n, !.task_accepted_time = t, !.cached_project = p] :
        o \in RoundTripOverrides, n \in {0, 9}, t \in AcceptedTimes,
        p \in {NoProject, ServiceConfig_get_project(ProjectUrl)}}

\* the targets of a pass are the override's when there is one, and the
\* targets without a build are some of them, in the order of the targets
AscendingLists ==
    {l \in ListsOf(Chroots) :
        /\ l # <<>>
        /\ \A i, j \in 1..Len(l) : i < j => ChrootIndex(l[i]) < ChrootIndex(l[j])}
WithoutBuildLists(override) ==
    {l \in AscendingLists : override # {} => ToSet(l) \subseteq override}

InitSerialized ==
    /\ envelope \in RoundTripEnvelopes
    /\ forge_event = <<>>
    /\ resolver_calls = <<>>
    /\ upserts = <<>>
    /\ last_read = NoRead
    /\ serialized = <<>>
    /\ metadata = <<>>
    /\ override_list = <<>>
    /\ dispatches = <<>>

\* testing_farm.py lines 153-154: event_data = self.data.get_dict() and
\* event_data["targets_override"] = targets_without_build
BuildEventData ==
    /\ last_read.n < MaxReads
    /\ LET listed == CHOOSE l \in AscendingLists \cup {<<>>} :
                         ToSet(l) = envelope.targets_override
       IN \E without \in WithoutBuildLists(envelope.targets_override) :
             serialized' = build_event_data(envelope, listed, without)
    /\ envelope' = self_after_get_dict(envelope)
    /\ last_read' = Read("event_data", None, NoProject, NoTrigger, NoConfig)
    /\ UNCHANGED <<tfVars, resVars, cmtVars, dspVars, deliveries, in_flight, triggers,
                   forge_event, resolver_calls, upserts>>

\* the EventData the receiving task builds of the dict
FromSerialized ==
    /\ DOMAIN serialized # {}
    /\ metadata' = from_event_dict(serialized)
    /\ UNCHANGED <<tfVars, resVars, triggers, envVars, cmtVars, deliveries, in_flight,
                   override_list, dispatches>>

InitRoundTrip ==
    /\ InitSerialized /\ IdleHandler /\ IdleResults /\ IdleComment
    /\ IdleRace /\ IdleCallbacks /\ triggers = {}
NextRoundTrip == GetDict \/ BuildEventData \/ FromSerialized
SpecRoundTrip == InitRoundTrip /\ [][NextRoundTrip]_vars

CachedKeys == {"cached_project", "cached_db_trigger"}
BuiltEventData == last_read.field = "event_data"

\* C32: get_dict, alone or in the building of the build-job event, leaves
\* the EventData as it was, cached fields and targets_override included,
\* and the dict it returns has neither cached field; the build-job event
\* carries the without-build targets as its targets_override.
C32_GetDictLeavesEnvelope ==
    [][/\ envelope' = envelope
       /\ serialized' # serialized => DOMAIN serialized' \cap CachedKeys = {}
       /\ BuiltEventData' =>
             /\ envelope'.targets_override = envelope.targets_override
             /\ ToSet(serialized'.targets_override) \in SUBSET Chroots \ {{}}]_vars
C32_Witness ==
    /\ last_read.n = 2
    /\ BuiltEventData
    /\ envelope.cached_project # NoProject
    /\ envelope.targets_override = Chroots
    /\ serialized.targets_override = <<Chroot(2)>>

SameFields(e, r) ==
    /\ \A f \in {"event_type", "user_login", "trigger_id", "project_url", "tag_name",
                 "git_ref", "pr_id", "commit_sha", "identifier", "issue_id",
                 "targets_override"} : r[f] = e[f]
    /\ r.task_accepted_time.sec = e.task_accepted_time.sec
\* a step that builds an EventData of what get_dict returned last
RoundTrips ==
    /\ metadata' # metadata
    /\ last_read.field = "EventData.get_dict"

\* C33: the EventData built of what get_dict returned has the event_type,
\* user_login, trigger_id, project_url, tag_name, git_ref, pr_id, commit_sha,
\* identifier, issue_id and targets_override of the serialized one, and its
\* task_accepted_time to the second.
C33_RoundTrip == [][RoundTrips => SameFields(envelope, metadata')]_vars
\* the part that holds: every envelope but one accepted in the first second
\* of the epoch
C33_RoundTripUnlessEpoch ==
    [][(RoundTrips /\ envelope.task_accepted_time.sec # 0) =>
          SameFields(envelope, metadata')]_vars
C33_EpochWitness ==
    /\ last_read.field = "EventData.get_dict"
    /\ envelope.task_accepted_time.sec = 0
    /\ serialized.task_accepted_time = 0
    /\ DOMAIN metadata # {}
    /\ metadata.task_accepted_time = NoTime
====
